---- MODULE Spec2Model ----
(***************************************************************************)
(* Model of the course-delivery application:                               *)
(*   - the top-level App component (session / profile wiring, profile      *)
(*     resolution with lazy creation, route guards), and the profiles      *)
(*     table it talks to;                                                  *)
(*   - the Markdown sync script (slug / order derivation, asset upload     *)
(*     with its per-run cache, Markdown rewriting, upsert by slug).        *)
(* The App is modelled after the variant that has the error state and the  *)
(* lazy profile creation; the older variant of App.tsx has the same route  *)
(* guards but neither of those.                                            *)
(***************************************************************************)
EXTENDS Integers, Sequences, FiniteSets, TLC

(***************************************************************************)
(* Bounds of the model.                                                    *)
(***************************************************************************)
\* number of session-change notifications delivered to the App
MaxNotifications == 1
\* number of sync runs
MaxRuns == 2
\* number of candidate documents found by a scan
MaxFiles == 2
\* number of pieces of a document given to processMarkdownContent
MaxDocLen == 4
\* number of characters of a document name given to the derivations
MaxNameLen == 3
\* handleSignup calls of one Signup page
MaxSubmits == 2
\* toggle calls of one Admin page
MaxToggles == 2
\* characters of the part of an account line that is enumerated
MaxFieldLen == 2
\* characters of a username typed into the Signup page
MaxUserLen == 3

(***************************************************************************)
(* Values.                                                                 *)
(***************************************************************************)
Users == {"u1", "u2"}
NoSession == "none"
Sessions == Users \cup {NoSession}

\* an optional value: <<>> is null, <<x>> is x
None == <<>>
Some(x) == <<x>>

Screens == {"Login", "Signup", "Pending", "CourseList", "CourseDetail", "Admin", "Unknown"}

VARIABLES
  \* ---- profiles table (Profile Store)
  profiles,       \* sequence of rows [id, username, is_active, is_admin]
  \* ---- App component state
  session,        \* useState<Session | null>: the user of the held session, or NoSession
  profile,        \* useState<Profile | null>: None or Some(row)
  loading,        \* useState(true)
  error,          \* useState<string | null>: "" is null
  path,           \* location: the requested screen
  getSessionPc,   \* "pending" until the getSession() promise has resolved
  logoutPc,       \* "idle" | "signOut" (handleLogout awaiting signOut)
  fetches,        \* the fetchProfile calls in flight
  \* ---- bookkeeping of what happened (read by the properties only)
  nNotifications, \* notifications delivered so far
  lastNotified,   \* session of the last snapshot received (getSession result or notification)
  adoptRid,       \* the fetchProfile call started by the latest adoption of a session (0: none)
  resolved        \* per user: outcome of the latest completed fetchProfile for that user

appVars == <<profiles, session, profile, loading, error, path, getSessionPc, logoutPc,
             fetches, nNotifications, lastNotified, adoptRid, resolved>>

VARIABLES
  \* ---- course_pages table (Content Store) and the storage bucket
  course_pages,   \* sequence of rows [slug, title, sort_order, md_content, updated_at]
  bucket,         \* storage paths that hold an object
  \* ---- the content root notebook/: document name -> text of its .md file
  notebook,
  \* ---- the sync script (one process per run)
  syncPc,         \* "idle" | "listBuckets" | "syncFile" | "assets" | "upsert" | "done" | "exit1"
  uploadedAssets, \* const uploadedAssets = new Map(): storagePath -> publicUrl
  files,          \* main: the sorted candidates
  fileIdx,        \* main: the loop index i
  success,        \* main: let success
  failed,         \* main: let failed
  assets,         \* processMarkdownContent: the collected references
  assetIdx,       \* processMarkdownContent: position in the upload loop (1-based)
  processedContent, \* processMarkdownContent: let processedContent
  \* ---- bookkeeping of what happened (read by the properties only)
  runs,           \* sync runs started so far
  uploads,        \* per storagePath, this run: write attempts, successful writes, results
  synced,         \* per document name: successful upserts over all runs (0, 1, or 2 for more)
  scanned,        \* this run: the candidates in the order scanMarkdownFiles found them
  returned        \* this document: what each uploadAsset call returned, in call order

syncVars == <<course_pages, bucket, syncPc, uploadedAssets, files, fileIdx, success, failed,
              assets, assetIdx, processedContent, runs, uploads, synced, notebook,
              scanned, returned>>

VARIABLES
  \* ---- the identity provider (auth.users)
  authUsers,      \* the users registered by the import script and the Signup page:
                  \* sequence of [id, email, username], username the user_metadata
  \* ---- the account import script
  accountFile,    \* account.txt: a sequence of lines
  importPc,       \* "idle" | "create" | "activate" | "done" | "empty"
  accounts,       \* main: const accounts
  acctIdx,        \* main: position in the for loop (1-based)
  created,        \* main: let created
  skipped,        \* main: let skipped
  importFailed,   \* main: let failed
  newUser,        \* createUser: data.user.id while the activation is awaited
  \* ---- the Signup page
  username,       \* useState(''): a sequence of characters
  password,       \* useState('')
  confirmPassword, \* useState('')
  signupLoading,  \* useState(false)
  signupError,    \* useState<string | null>: "" is null
  signupPc,       \* "idle" | "signUp" (handleSignup awaiting signUp)
  signupPath,     \* location of the page: "Signup" | "Pending"
  \* ---- the Admin page
  adminUsers,     \* useState<Profile[]>([]): the rows the page displays
  adminLoading,   \* useState(true)
  adminError,     \* useState<string | null>: "" is null
  activating,     \* useState<string | null>: "" is null
  toggles,        \* the toggleActive / toggleAdmin calls in flight
  \* ---- bookkeeping of what happened (read by the properties only)
  createCalls,    \* the auth.admin.createUser calls of the import, in order
  signUpCalls,    \* the auth.signUp calls of the Signup page, in order
  submits,        \* handleSignup calls so far
  nToggles        \* toggle calls made so far

importVars == <<accountFile, importPc, accounts, acctIdx, created, skipped, importFailed,
                newUser, createCalls>>

signupVars == <<username, password, confirmPassword, signupLoading, signupError, signupPc,
                signupPath, signUpCalls, submits>>

adminVars == <<adminUsers, adminLoading, adminError, activating, toggles, nToggles>>

acctVars == <<authUsers, importVars, signupVars, adminVars>>

VARIABLES
  \* ---- the course list page (Course)
  courses,        \* useState<CourseListItem[]>([])
  courseLoading,  \* useState(true)
  courseError     \* useState<string | null>: "" is null

courseVars == <<courses, courseLoading, courseError>>

VARIABLES
  \* ---- the course of the sync runs (read by the properties only)
  trace,          \* this run: the answers the script got, in order
  before          \* the run before this one: its scan, its answers, and the
                  \* rows of course_pages when it was over

histVars == <<trace, before>>

vars == <<appVars, syncVars, acctVars, courseVars, histVars>>

(***************************************************************************)
(* The profiles table.                                                     *)
(***************************************************************************)
Row(u, active, admin) == [id |-> u, username |-> u, is_active |-> active, is_admin |-> admin]

RowsOf(rows, u) == {i \in 1..Len(rows) : rows[i].id = u}

\* .select('*').eq('id', userId).single(): one row, or the PGRST116 error when
\* the number of matching rows is not one
SelectSingle(rows, u) ==
  IF Cardinality(RowsOf(rows, u)) = 1
    THEN [outcome |-> "row", row |-> Some(rows[CHOOSE i \in RowsOf(rows, u) : TRUE])]
    ELSE [outcome |-> "PGRST116", row |-> None]

\* an insert that does not enforce the primary key
InsertProfileNoKey(rows, row) ==
  [outcome |-> "row", rows |-> Append(rows, row), row |-> Some(row)]

\* insert under the primary key on id: a second row for an id is refused
InsertProfile(rows, row) ==
  IF RowsOf(rows, row.id) # {}
    THEN [outcome |-> "duplicate", rows |-> rows, row |-> None]
    ELSE [outcome |-> "row", rows |-> Append(rows, row), row |-> Some(row)]

(***************************************************************************)
(* Route guards.                                                           *)
(***************************************************************************)
Render(s) == [kind |-> "Render", screen |-> s]
RedirectTo(s) == [kind |-> "Redirect", screen |-> s]

\* route elements in which the course list sends an inactive user to /admin
RouteElementCycle(isAuthenticated, isActive, isAdmin, screen) ==
  CASE screen \in {"Login", "Pending"} /\ ~isAuthenticated ->
         IF screen = "Login" THEN Render("Login") ELSE RedirectTo("Login")
    [] screen \in {"Login", "Pending"} /\ isAuthenticated ->
         IF isActive THEN RedirectTo("CourseList")
         ELSE IF screen = "Pending" THEN Render("Pending") ELSE RedirectTo("Pending")
    [] screen = "Signup" ->
         IF ~isAuthenticated THEN Render("Signup") ELSE RedirectTo("Pending")
    [] screen \in {"CourseList", "CourseDetail"} ->
         IF ~isAuthenticated THEN RedirectTo("Login")
         ELSE IF ~isActive THEN RedirectTo("Admin")
         ELSE Render(screen)
    [] screen = "Admin" ->
         IF ~isAuthenticated THEN RedirectTo("Login")
         ELSE IF ~isAdmin THEN RedirectTo("CourseList")
         ELSE Render("Admin")
    [] OTHER ->
         IF ~isAuthenticated THEN RedirectTo("Login")
         ELSE IF isActive THEN RedirectTo("CourseList")
         ELSE RedirectTo("Pending")

\* the element of the <Route> that matches the requested screen
RouteElement(isAuthenticated, isActive, isAdmin, screen) ==
  CASE screen = "Login" ->
         IF ~isAuthenticated THEN Render("Login")
         ELSE IF isActive THEN RedirectTo("CourseList")
         ELSE RedirectTo("Pending")
    [] screen = "Signup" ->
         IF ~isAuthenticated THEN Render("Signup")
         ELSE RedirectTo("Pending")
    [] screen = "Pending" ->
         IF ~isAuthenticated THEN RedirectTo("Login")
         ELSE IF isActive THEN RedirectTo("CourseList")
         ELSE Render("Pending")
    [] screen = "CourseList" ->
         IF ~isAuthenticated THEN RedirectTo("Login")
         ELSE IF ~isActive THEN RedirectTo("Pending")
         ELSE Render("CourseList")
    [] screen = "CourseDetail" ->
         IF ~isAuthenticated THEN RedirectTo("Login")
         ELSE IF ~isActive THEN RedirectTo("Pending")
         ELSE Render("CourseDetail")
    [] screen = "Admin" ->
         IF ~isAuthenticated THEN RedirectTo("Login")
         ELSE IF ~isAdmin THEN RedirectTo("CourseList")
         ELSE Render("Admin")
    [] OTHER ->
         IF ~isAuthenticated THEN RedirectTo("Login")
         ELSE IF isActive THEN RedirectTo("CourseList")
         ELSE RedirectTo("Pending")

\* const isAuthenticated = !!session, isActive = profile?.is_active ?? false, ...
isAuthenticated == session # NoSession
isActive == IF profile = None THEN FALSE ELSE profile[1].is_active
isAdmin == IF profile = None THEN FALSE ELSE profile[1].is_admin

\* what App returns: the loading placeholder, the error screen, or the routes
View ==
  IF loading THEN "Loading"
  ELSE IF error # "" /\ session # NoSession THEN "Error"
  ELSE "Routes"

RouteDecision == RouteElement(isAuthenticated, isActive, isAdmin, path)

Rendered(s) == View = "Routes" /\ RouteDecision = Render(s)

(***************************************************************************)
(* App: session wiring and profile resolution.                             *)
(***************************************************************************)
\* u1 has no row or a row with any flags; u2 has no row or is an active admin
InitProfiles ==
  LET rows1 == {<<>>} \cup {<<Row("u1", a, d)>> : a \in BOOLEAN, d \in BOOLEAN}
      rows2 == {<<>>, <<Row("u2", TRUE, TRUE)>>}
  IN {r1 \o r2 : r1 \in rows1, r2 \in rows2}

AppInit ==
  /\ profiles \in InitProfiles
  /\ session = NoSession
  /\ profile = None
  /\ loading = TRUE
  /\ error = ""
  /\ path \in Screens
  /\ getSessionPc = "pending"
  /\ logoutPc = "idle"
  /\ fetches = {}
  /\ nNotifications = 0
  /\ lastNotified = NoSession
  /\ adoptRid = 0
  /\ resolved = [u \in Users |-> "none"]

\* the calls in flight are told apart by a number; a number is free again
\* once its call has ended
FreeRid == CHOOSE n \in 1..(MaxNotifications + 1) :
             /\ \A r \in fetches : r.rid # n
             /\ \A m \in 1..(n - 1) : \E r \in fetches : r.rid = m

\* fetchProfile(currentSession) up to its first await: the select is on its way
StartFetch(u) ==
  LET rid == FreeRid
  IN /\ fetches' = fetches \cup {[rid |-> rid, user |-> u, pc |-> "select",
                                  outcome |-> "none", row |-> None]}
     /\ adoptRid' = rid

\* supabase.auth.getSession().then(...)
GetSessionReturn(s) ==
  /\ getSessionPc = "pending"
  /\ getSessionPc' = "done"
  /\ lastNotified' = s
  /\ session' = s
  /\ IF s # NoSession
       THEN StartFetch(s) /\ UNCHANGED loading
       ELSE loading' = FALSE /\ adoptRid' = 0 /\ UNCHANGED <<fetches>>
  /\ UNCHANGED <<profiles, profile, error, path, logoutPc, nNotifications, resolved>>
  /\ UNCHANGED <<syncVars, histVars, acctVars, courseVars>>

\* the onAuthStateChange callback, up to its await
AuthStateChange(s) ==
  /\ nNotifications < MaxNotifications
  /\ nNotifications' = nNotifications + 1
  /\ lastNotified' = s
  /\ session' = s
  /\ IF s # NoSession
       THEN StartFetch(s) /\ UNCHANGED <<profile, loading>>
       ELSE /\ profile' = None
            /\ loading' = FALSE
            /\ adoptRid' = 0
            /\ UNCHANGED <<fetches>>
  /\ UNCHANGED <<profiles, error, path, getSessionPc, logoutPc, resolved>>
  /\ UNCHANGED <<syncVars, histVars, acctVars, courseVars>>

\* a failure branch that only clears the profile and records no error
SetFailureSilent(message) ==
  /\ error' = error
  /\ profile' = None
  /\ loading' = FALSE

\* a failure branch without the finally block
SetFailureKeepLoading(message) ==
  /\ error' = message
  /\ profile' = None
  /\ loading' = loading

\* a failure branch of fetchProfile: setError(message), setProfile(null), and
\* the finally block
SetFailure(message) ==
  /\ error' = message
  /\ profile' = None
  /\ loading' = FALSE

\* a fetchProfile call has run to its end
Complete(r, outcome) ==
  /\ fetches' = fetches \ {r}
  /\ adoptRid' = IF adoptRid = r.rid THEN 0 ELSE adoptRid
  /\ resolved' = [resolved EXCEPT ![r.user] = outcome]

\* the store answers the select of fetchProfile (or the request fails)
ServerSelect(r, fail) ==
  /\ r \in fetches /\ r.pc = "select"
  /\ LET ans == IF fail = "none" THEN SelectSingle(profiles, r.user)
                ELSE [outcome |-> fail, row |-> None]
     IN fetches' = (fetches \ {r}) \cup
                     {[r EXCEPT !.pc = "selected", !.outcome = ans.outcome, !.row = ans.row]}
  /\ UNCHANGED <<profiles, session, profile, loading, error, path, getSessionPc, logoutPc,
                 nNotifications, lastNotified, adoptRid, resolved>>
  /\ UNCHANGED <<syncVars, histVars, acctVars, courseVars>>

\* fetchProfile resumes after the select
HandleSelect(r) ==
  /\ r \in fetches /\ r.pc = "selected"
  /\ CASE r.outcome = "row" ->
            /\ profile' = r.row
            /\ error' = ""
            /\ loading' = FALSE
            /\ Complete(r, "ok")
       [] r.outcome = "PGRST116" ->
            \* the insert is on its way
            /\ fetches' = (fetches \ {r}) \cup
                            {[r EXCEPT !.pc = "insert", !.outcome = "none", !.row = None]}
            /\ UNCHANGED <<profile, error, loading, adoptRid, resolved>>
       [] r.outcome = "error" ->
            /\ SetFailure("fetch")
            /\ Complete(r, "failed")
       [] OTHER ->
            \* an exception: the catch branch
            /\ SetFailure("unknown")
            /\ Complete(r, "failed")
  /\ UNCHANGED <<profiles, session, path, getSessionPc, logoutPc, nNotifications,
                 lastNotified>>
  /\ UNCHANGED <<syncVars, histVars, acctVars, courseVars>>

\* the store executes the insert of the lazy creation (or the request fails)
ServerInsert(r, fail) ==
  /\ r \in fetches /\ r.pc = "insert"
  /\ LET ans == IF fail = "none" THEN InsertProfile(profiles, Row(r.user, FALSE, FALSE))
                ELSE [outcome |-> fail, rows |-> profiles, row |-> None]
     IN /\ profiles' = ans.rows
        /\ fetches' = (fetches \ {r}) \cup
                        {[r EXCEPT !.pc = "inserted", !.outcome = ans.outcome, !.row = ans.row]}
  /\ UNCHANGED <<session, profile, loading, error, path, getSessionPc, logoutPc,
                 nNotifications, lastNotified, adoptRid, resolved>>
  /\ UNCHANGED <<syncVars, histVars, acctVars, courseVars>>

\* fetchProfile resumes after the insert
HandleInsert(r) ==
  /\ r \in fetches /\ r.pc = "inserted"
  /\ CASE r.outcome = "row" ->
            /\ profile' = r.row
            /\ loading' = FALSE
            /\ Complete(r, "ok")
            /\ UNCHANGED error
       [] r.outcome \in {"duplicate", "error"} ->
            /\ SetFailure("create")
            /\ Complete(r, "failed")
       [] OTHER ->
            /\ SetFailure("unknown")
            /\ Complete(r, "failed")
  /\ UNCHANGED <<profiles, session, path, getSessionPc, logoutPc, nNotifications,
                 lastNotified>>
  /\ UNCHANGED <<syncVars, histVars, acctVars, courseVars>>

\* handleLogout up to its await; the button is in the header, on the Pending
\* screen and on the error screen
HandleLogout ==
  /\ logoutPc = "idle"
  /\ \/ View = "Error"
     \/ View = "Routes" /\ isAuthenticated
  /\ logoutPc' = "signOut"
  /\ UNCHANGED <<profiles, session, profile, loading, error, path, getSessionPc,
                 fetches, nNotifications, lastNotified, adoptRid, resolved>>
  /\ UNCHANGED <<syncVars, histVars, acctVars, courseVars>>

\* signOut() resolves: the gateway has notified the subscriber of the end of
\* the session, then handleLogout clears the state and navigates to /login
SignOutReturn ==
  /\ logoutPc = "signOut"
  /\ logoutPc' = "idle"
  /\ lastNotified' = NoSession
  /\ session' = NoSession
  /\ profile' = None
  /\ loading' = FALSE
  /\ adoptRid' = 0
  /\ path' = "Login"
  /\ UNCHANGED <<profiles, error, getSessionPc, fetches, nNotifications,
                 resolved>>
  /\ UNCHANGED <<syncVars, histVars, acctVars, courseVars>>

\* the user asks for a screen (address bar, link)
Navigate(s) ==
  /\ path # s
  /\ path' = s
  /\ UNCHANGED <<profiles, session, profile, loading, error, getSessionPc, logoutPc,
                 fetches, nNotifications, lastNotified, adoptRid, resolved>>
  /\ UNCHANGED <<syncVars, histVars, acctVars, courseVars>>

\* a rendered <Navigate to=... replace />
Redirect ==
  /\ View = "Routes"
  /\ RouteDecision.kind = "Redirect"
  /\ path' = RouteDecision.screen
  /\ UNCHANGED <<profiles, session, profile, loading, error, getSessionPc, logoutPc,
                 fetches, nNotifications, lastNotified, adoptRid, resolved>>
  /\ UNCHANGED <<syncVars, histVars, acctVars, courseVars>>

Failures == {"none", "error", "throw"}

AppNext ==
  \/ \E s \in Sessions : GetSessionReturn(s)
  \/ \E s \in Sessions : AuthStateChange(s)
  \/ \E r \in fetches, f \in Failures : ServerSelect(r, f)
  \/ \E r \in fetches : HandleSelect(r)
  \/ \E r \in fetches, f \in Failures : ServerInsert(r, f)
  \/ \E r \in fetches : HandleInsert(r)
  \/ HandleLogout
  \/ SignOutReturn
  \/ \E s \in Screens : Navigate(s)
  \/ Redirect

(***************************************************************************)
(* The sync script: names and the slug / sort-order derivation.            *)
(* A name is a sequence of characters.  The characters of the CJK range    *)
(* are written by their pinyin: Di (the ordinal marker), Ke (lesson), the  *)
(* numerals Yi Er San Si Wu Liu Qi Ba Jiu Shi Bai Qian Wan, and Kai, Gong  *)
(* as ordinary title characters.  FwColon is the full-width colon.         *)
(***************************************************************************)
Numerals == {"Yi", "Er", "San", "Si", "Wu", "Liu", "Qi", "Ba", "Jiu", "Shi", "Bai", "Qian", "Wan"}
Digits == {"0", "1", "2", "3", "4", "5", "6", "7", "8", "9"}
UpperCase == {"A", "B"}
LowerCase == {"a", "b", "k"}
CJK == Numerals \cup {"Di", "Ke", "Kai", "Gong"}
WhiteSpace == {" "}

IsSpace(c) == c \in WhiteSpace
\* [-:FwColon\s] after the lesson prefix, [-:FwColon.\s] after the number prefix
LessonSep == {"-", ":", "FwColon"} \cup WhiteSpace
NumberSep == {"-", ":", "FwColon", "."} \cup WhiteSpace
\* [\w CJK -]
IsSlugChar(c) == c \in UpperCase \cup LowerCase \cup Digits \cup {"_", "-"} \cup CJK

toLowerCase(c) == CASE c = "A" -> "a" [] c = "B" -> "b" [] OTHER -> c

\* index of the first character of s outside the character class (Len(s) + 1 if none)
FirstNot(s, class) ==
  IF \E i \in 1..Len(s) : s[i] \notin class
    THEN CHOOSE i \in 1..Len(s) : s[i] \notin class /\ \A j \in 1..(i - 1) : s[j] \in class
    ELSE Len(s) + 1

DropWhile(s, class) == SubSeq(s, FirstNot(s, class), Len(s))

\* .replace(/^Di[numerals]+Ke[-:FwColon\s]*/i, '')
StripLessonPrefix(s) ==
  IF Len(s) >= 1 /\ s[1] = "Di"
    THEN LET k == FirstNot(Tail(s), Numerals) + 1   \* first character after the numerals
         IN IF k > 2 /\ k <= Len(s) /\ s[k] = "Ke"
              THEN DropWhile(SubSeq(s, k + 1, Len(s)), LessonSep)
              ELSE s
    ELSE s

\* .replace(/^\d+[-:FwColon.\s]*/i, '')
StripNumberPrefix(s) ==
  LET k == FirstNot(s, Digits)
  IN IF k > 1 THEN DropWhile(SubSeq(s, k, Len(s)), NumberSep) ELSE s

\* .trim()
Trim(s) ==
  LET front == DropWhile(s, WhiteSpace)
      last == IF \E i \in 1..Len(front) : ~IsSpace(front[i])
                THEN CHOOSE i \in 1..Len(front) :
                       ~IsSpace(front[i]) /\ \A j \in (i + 1)..Len(front) : IsSpace(front[j])
                ELSE 0
  IN SubSeq(front, 1, last)

RECURSIVE CollapseSpaces(_)
\* .replace(/\s+/g, '-')
CollapseSpaces(s) ==
  IF s = <<>> THEN <<>>
  ELSE IF IsSpace(s[1]) THEN <<"-">> \o CollapseSpaces(DropWhile(s, WhiteSpace))
  ELSE <<s[1]>> \o CollapseSpaces(Tail(s))

\* .toLowerCase().replace(/\s+/g, '-').replace(/[^\w CJK -]/g, '')
UrlFriendly(s) ==
  LET lower == [i \in 1..Len(s) |-> toLowerCase(s[i])]
  IN SelectSeq(CollapseSpaces(lower), IsSlugChar)

Untitled == <<"u", "n", "t", "i", "t", "l", "e", "d">>

\* a derivation without the two fallbacks
generateSlugNoFallback(name) == UrlFriendly(Trim(StripNumberPrefix(StripLessonPrefix(name))))

generateSlug(name) ==
  LET stripped == UrlFriendly(Trim(StripNumberPrefix(StripLessonPrefix(name))))
      slug == IF stripped = <<>> THEN UrlFriendly(name) ELSE stripped
  IN IF slug = <<>> THEN Untitled ELSE slug

\* a derivation that does not know the numeral words
extractSortOrderDigitsOnly(name, index) ==
  LET d == FirstNot(name, Digits)
  IN IF d > 1
       THEN LET V[i \in 0..(d - 1)] ==
                  IF i = 0 THEN 0
                  ELSE 10 * V[i - 1] + (CHOOSE n \in 0..9 : ToString(n) = name[i])
            IN V[d - 1]
       ELSE index + 1

\* const chineseNums = { Yi: 1, ..., Shi: 10 }
chineseNums ==
  [c \in {"Yi", "Er", "San", "Si", "Wu", "Liu", "Qi", "Ba", "Jiu", "Shi"} |->
     CASE c = "Yi" -> 1 [] c = "Er" -> 2 [] c = "San" -> 3 [] c = "Si" -> 4
       [] c = "Wu" -> 5 [] c = "Liu" -> 6 [] c = "Qi" -> 7 [] c = "Ba" -> 8
       [] c = "Jiu" -> 9 [] OTHER -> 10]

DigitValue(c) == CHOOSE n \in 0..9 : ToString(n) = c

RECURSIVE parseInt(_)
\* parseInt(digits, 10)
parseInt(ds) ==
  IF ds = <<>> THEN 0
  ELSE 10 * parseInt(SubSeq(ds, 1, Len(ds) - 1)) + DigitValue(ds[Len(ds)])

extractSortOrder(name, index) ==
  LET k == IF Len(name) >= 1 /\ name[1] = "Di"
             THEN FirstNot(Tail(name), Numerals) + 1 ELSE 0
      chineseMatch == k > 2 /\ k <= Len(name) /\ name[k] = "Ke"
      numStr == SubSeq(name, 2, k - 1)
      d == FirstNot(name, Digits)
  IN IF chineseMatch /\ Len(numStr) = 1 /\ numStr[1] \in DOMAIN chineseNums
       THEN chineseNums[numStr[1]]
     ELSE IF d > 1 THEN parseInt(SubSeq(name, 1, d - 1))
     ELSE index + 1

extractTitle(name) ==
  LET title == Trim(StripNumberPrefix(StripLessonPrefix(name)))
  IN IF title = <<>> THEN name ELSE title

(***************************************************************************)
(* The sync script: Markdown content and asset upload.                     *)
(* A document is a sequence of tokens: "T" is a stretch of plain text,     *)
(* "!" the image marker, "[x]" a bracketed alt / link text ("[$$]" one     *)
(* whose text is two dollar signs), and a                                  *)
(* parenthesised target such as "(image/a.png)" or, with a quoted title,   *)
(* "(image/a.png 't')".                                                    *)
(***************************************************************************)
AssetPaths == {"image/a.png", "image/m.png", "file/f.gz"}
\* the asset files present under notebook/ (image/m.png is missing)
LocalAssets == {"image/a.png", "file/f.gz"}

Brackets == {"[x]", "[y]", "[$$]"}
\* the path of a parenthesised target that starts with image/ or file/
TargetPath(tok) ==
  CASE tok \in {"(image/a.png)", "(image/a.png 't')"} -> "image/a.png"
    [] tok = "(image/m.png)" -> "image/m.png"
    [] tok \in {"(file/f.gz)", "(file/f.gz 't')"} -> "file/f.gz"
    [] OTHER -> ""
IsImageTarget(tok) == TargetPath(tok) \in {"image/a.png", "image/m.png"}
IsFileTarget(tok) == TargetPath(tok) = "file/f.gz"

\* supabase.storage.from(bucket).getPublicUrl(storagePath).publicUrl
PublicUrl(storagePath) == "https://cdn/" \o storagePath

\* uploadAsset with a catch that rethrows
uploadAssetRethrow(cache, storagePath, outcome) ==
  IF storagePath \in DOMAIN cache
    THEN [url |-> cache[storagePath], cache |-> cache, wrote |-> FALSE, stored |-> FALSE,
          threw |-> FALSE]
  ELSE IF storagePath \notin LocalAssets
    THEN [url |-> "", cache |-> cache, wrote |-> FALSE, stored |-> FALSE, threw |-> FALSE]
  ELSE IF outcome = "error"
    THEN [url |-> "", cache |-> cache, wrote |-> TRUE, stored |-> FALSE, threw |-> TRUE]
  ELSE [url |-> PublicUrl(storagePath),
        cache |-> [q \in DOMAIN cache \cup {storagePath} |->
                     IF q = storagePath THEN PublicUrl(storagePath) ELSE cache[q]],
        wrote |-> TRUE, stored |-> TRUE, threw |-> FALSE]

\* uploadAsset without the cache lookup
uploadAssetUncached(cache, storagePath, outcome) ==
  IF storagePath \notin LocalAssets
    THEN [url |-> "", cache |-> cache, wrote |-> FALSE, stored |-> FALSE, threw |-> FALSE]
  ELSE IF outcome = "error"
    THEN [url |-> "", cache |-> cache, wrote |-> TRUE, stored |-> FALSE, threw |-> FALSE]
  ELSE [url |-> PublicUrl(storagePath),
        cache |-> [q \in DOMAIN cache \cup {storagePath} |-> 
                     IF q = storagePath THEN PublicUrl(storagePath) ELSE cache[q]],
        wrote |-> TRUE, stored |-> TRUE, threw |-> FALSE]

\* uploadAsset that caches the URL of a path whose upload failed
uploadAssetCachesFailure(cache, storagePath, outcome) ==
  IF storagePath \in DOMAIN cache
    THEN [url |-> cache[storagePath], cache |-> cache, wrote |-> FALSE, stored |-> FALSE,
          threw |-> FALSE]
  ELSE IF storagePath \notin LocalAssets
    THEN [url |-> "", cache |-> cache, wrote |-> FALSE, stored |-> FALSE, threw |-> FALSE]
  ELSE [url |-> IF outcome = "error" THEN "" ELSE PublicUrl(storagePath),
        cache |-> [q \in DOMAIN cache \cup {storagePath} |->
                     IF q = storagePath THEN PublicUrl(storagePath) ELSE cache[q]],
        wrote |-> TRUE, stored |-> outcome # "error", threw |-> FALSE]

\* uploadAsset(localPath, storagePath), localPath being storagePath under
\* notebook/; outcome is the answer of the storage upload, if one is made
\* ("error": the upload answers an error or throws, both end in the catch).
\* url "" is null; wrote: an upload was sent; stored: it succeeded; threw: an
\* error left the function.
uploadAsset(cache, storagePath, outcome) ==
  IF storagePath \in DOMAIN cache
    THEN [url |-> cache[storagePath], cache |-> cache, wrote |-> FALSE, stored |-> FALSE, threw |-> FALSE]
  ELSE IF storagePath \notin LocalAssets
    THEN [url |-> "", cache |-> cache, wrote |-> FALSE, stored |-> FALSE, threw |-> FALSE]
  ELSE IF outcome = "error"
    THEN [url |-> "", cache |-> cache, wrote |-> TRUE, stored |-> FALSE, threw |-> FALSE]
  ELSE [url |-> PublicUrl(storagePath),
        cache |-> [q \in DOMAIN cache \cup {storagePath} |-> 
                     IF q = storagePath THEN PublicUrl(storagePath) ELSE cache[q]],
        wrote |-> TRUE, stored |-> TRUE, threw |-> FALSE]

\* a collection that takes the links before the images
CollectAssetsLinksFirst(content) ==
  LET n == Len(content)
      imageAt(i) == i + 2 <= n /\ content[i] = "!" /\ content[i + 1] \in Brackets
                      /\ IsImageTarget(content[i + 2])
      fileAt(i) == i + 1 <= n /\ content[i] \in Brackets /\ IsFileTarget(content[i + 1])
      image(i) == [fullMatch |-> SubSeq(content, i, i + 2), altOrText |-> content[i + 1],
                   relativePath |-> TargetPath(content[i + 2]), type |-> "image"]
      file(i) == [fullMatch |-> SubSeq(content, i, i + 1), altOrText |-> content[i],
                  relativePath |-> TargetPath(content[i + 1]), type |-> "file"]
      F[i \in 0..n] == IF i = 0 THEN <<>>
                       ELSE IF imageAt(i) THEN Append(F[i - 1], image(i)) ELSE F[i - 1]
      G[i \in 0..n] == IF i = 0 THEN <<>>
                       ELSE IF fileAt(i) THEN Append(G[i - 1], file(i)) ELSE G[i - 1]
  IN G[n] \o F[n]

\* the matches of imageRegex, then those of fileRegex, in the order found
CollectAssets(content) ==
  LET n == Len(content)
      imageAt(i) == i + 2 <= n /\ content[i] = "!" /\ content[i + 1] \in Brackets
                      /\ IsImageTarget(content[i + 2])
      fileAt(i) == i + 1 <= n /\ content[i] \in Brackets /\ IsFileTarget(content[i + 1])
      image(i) == [fullMatch |-> SubSeq(content, i, i + 2), altOrText |-> content[i + 1],
                   relativePath |-> TargetPath(content[i + 2]), type |-> "image"]
      file(i) == [fullMatch |-> SubSeq(content, i, i + 1), altOrText |-> content[i],
                  relativePath |-> TargetPath(content[i + 1]), type |-> "file"]
      F[i \in 0..n] == IF i = 0 THEN <<>>
                       ELSE IF imageAt(i) THEN Append(F[i - 1], image(i)) ELSE F[i - 1]
      G[i \in 0..n] == IF i = 0 THEN <<>>
                       ELSE IF fileAt(i) THEN Append(G[i - 1], file(i)) ELSE G[i - 1]
  IN F[n] \o G[n]

\* a rewrite that keeps the reference as it was matched
NewRefUnresolved(asset, publicUrl) == asset.fullMatch

\* the new Markdown reference for an asset and its public URL
NewRef(asset, publicUrl) ==
  IF asset.type = "image"
    THEN <<"!", asset.altOrText, "(" \o publicUrl \o ")">>
    ELSE <<asset.altOrText, "(" \o publicUrl \o ")">>

\* what String.prototype.replace inserts for a piece of the replacement
\* string: "$$" stands for one dollar sign
GetSubstitution(tok) == IF tok = "[$$]" THEN "[$]" ELSE tok

\* content.replace(pattern, replacement) with a string pattern: the first
\* occurrence only, the replacement string being expanded
ReplaceFirst(content, pattern, replacement) ==
  LET inserted == [k \in 1..Len(replacement) |-> GetSubstitution(replacement[k])]
      occurs(i) == i + Len(pattern) - 1 <= Len(content)
                     /\ SubSeq(content, i, i + Len(pattern) - 1) = pattern
  IN IF \E i \in 1..Len(content) : occurs(i)
       THEN LET i == CHOOSE i \in 1..Len(content) :
                       occurs(i) /\ \A j \in 1..(i - 1) : ~occurs(j)
            IN SubSeq(content, 1, i - 1) \o inserted
                 \o SubSeq(content, i + Len(pattern), Len(content))
       ELSE content

(***************************************************************************)
(* The sync script: the course_pages table and the run.                    *)
(***************************************************************************)
SlugRows(rows, slug) == {i \in 1..Len(rows) : rows[i].slug = slug}

\* a write that keeps only the rows of the documents written last
UpsertRetracting(rows, row) ==
  SelectSeq(rows, LAMBDA r : r.slug # row.slug /\ r.updated_at = row.updated_at) \o <<row>>

\* an upsert that, on a conflict, adds the new text to the text of the row
UpsertAccumulating(rows, row) ==
  IF SlugRows(rows, row.slug) # {}
    THEN [i \in 1..Len(rows) |->
           IF rows[i].slug = row.slug
             THEN [row EXCEPT !.md_content = rows[i].md_content \o row.md_content]
             ELSE rows[i]]
    ELSE Append(rows, row)

\* an insert that ignores the conflict target
UpsertAlwaysInsert(rows, row) == Append(rows, row)

\* .upsert(row, { onConflict: 'slug' }) under the unique constraint on slug
Upsert(rows, row) ==
  IF SlugRows(rows, row.slug) # {}
    THEN [i \in 1..Len(rows) |-> IF rows[i].slug = row.slug THEN row ELSE rows[i]]
    ELSE Append(rows, row)

RECURSIVE InsertSorted(_, _)
InsertSorted(sorted, f) ==
  IF sorted = <<>> THEN <<f>>
  ELSE IF extractSortOrder(f, 0) < extractSortOrder(sorted[1], 0)
    THEN <<f>> \o sorted
  ELSE <<sorted[1]>> \o InsertSorted(Tail(sorted), f)

\* no sort: the candidates stay in scan order
SortFilesNone(fs) == fs

RECURSIVE SortFiles(_)
\* files.sort((a, b) => extractSortOrder(a.name, 0) - extractSortOrder(b.name, 0)),
\* a stable sort
SortFiles(fs) ==
  IF fs = <<>> THEN <<>>
  ELSE InsertSorted(SortFiles(SubSeq(fs, 1, Len(fs) - 1)), fs[Len(fs)])

\* the documents that may be found under notebook/
NameLesson1 == <<"Di", "Yi", "Ke", "-", "Kai">>
NameTool == <<"0", "2", "-", "Gong">>
NamePlain == <<"Gong">>
DocNames == {NameLesson1, NameTool, NamePlain}

\* what a scan may find: the candidates in discovery order
Scans == UNION {[1..n -> DocNames] : n \in 0..MaxFiles}

\* the text of the documents
DocPlain == <<"T">>
DocTwice == <<"!", "[x]", "(image/a.png)", "T", "!", "[x]", "(image/a.png)">>
DocMixed == <<"!", "[x]", "(image/m.png)", "[y]", "(file/f.gz 't')">>
\* one resolvable image reference
DocOne == <<"T", "!", "[x]", "(image/a.png)">>
DocContent(name) ==
  CASE name = NameLesson1 -> DocPlain
    [] name = NameTool -> DocTwice
    [] OTHER -> DocMixed

\* the content roots: the document of the second name holds one reference, or
\* the same reference twice
Notebooks ==
  {[n \in DocNames |-> IF n = NameTool THEN d ELSE DocContent(n)] : d \in {DocOne, DocTwice}}

\* per storagePath: calls of uploadAsset, uploads sent, uploads that succeeded,
\* the results returned ("" is null), whether, after a URL had been returned,
\* a call sent an upload or returned null, and the result of the last call
NoUploads ==
  [q \in AssetPaths |->
     [calls |-> 0, attempts |-> 0, stored |-> 0, late |-> FALSE, results |-> {},
      last |-> ""]]

\* no run before this one
NoBefore == [scanned |-> <<>>, trace |-> <<>>, pages |-> <<>>]

SyncInit ==
  /\ course_pages = <<>>
  /\ bucket = {}
  /\ syncPc = "idle"
  /\ uploadedAssets = <<>>
  /\ files = <<>>
  /\ fileIdx = 0
  /\ success = 0
  /\ failed = 0
  /\ assets = <<>>
  /\ assetIdx = 0
  /\ processedContent = <<>>
  /\ runs = 0
  /\ uploads = NoUploads
  /\ synced = [n \in DocNames |-> 0]
  /\ scanned = <<>>
  /\ returned = <<>>
  /\ trace = <<>>
  /\ before = NoBefore

\* the script starts: a new process, with an empty cache; without the
\* service-role key it exits at once
Startup(hasKey) ==
  /\ syncPc \in {"idle", "done", "exit1"}
  /\ runs < MaxRuns
  /\ runs' = runs + 1
  /\ uploadedAssets' = <<>>
  /\ uploads' = NoUploads
  /\ files' = <<>> /\ fileIdx' = 0 /\ success' = 0 /\ failed' = 0
  /\ assets' = <<>> /\ assetIdx' = 0 /\ processedContent' = <<>>
  /\ syncPc' = IF hasKey THEN "listBuckets" ELSE "exit1"
  /\ scanned' = <<>> /\ returned' = <<>>
  /\ trace' = <<IF hasKey THEN "key" ELSE "no key">>
  /\ before' = [scanned |-> scanned, trace |-> trace, pages |-> course_pages]
  /\ UNCHANGED <<course_pages, bucket, synced, notebook>>
  /\ UNCHANGED <<appVars, acctVars, courseVars>>

\* a bucket check that goes on when the bucket is absent
ListBucketsReturnLenient(answer, scan) ==
  /\ syncPc = "listBuckets"
  /\ IF answer = "error"
       THEN syncPc' = "exit1" /\ UNCHANGED <<files, scanned>>
       ELSE /\ scanned' = scan
            /\ files' = SortFiles(scan)
            /\ syncPc' = IF scan = <<>> THEN "done" ELSE "syncFile"
  /\ trace' = Append(trace, answer)
  /\ UNCHANGED <<course_pages, bucket, uploadedAssets, fileIdx, success, failed, assets,
                 assetIdx, processedContent, runs, uploads, synced, notebook, returned,
                 before>>
  /\ UNCHANGED <<appVars, acctVars, courseVars>>

\* main after listBuckets(): the bucket check, the scan and the sort
ListBucketsReturn(answer, scan) ==
  /\ syncPc = "listBuckets"
  /\ IF answer \in {"error", "absent"}
       THEN syncPc' = "exit1" /\ UNCHANGED <<files, scanned>>
       ELSE /\ scanned' = scan
            /\ files' = SortFiles(scan)
            /\ syncPc' = IF scan = <<>> THEN "done" ELSE "syncFile"
  /\ trace' = Append(trace, answer)
  /\ UNCHANGED <<course_pages, bucket, uploadedAssets, fileIdx, success, failed, assets,
                 assetIdx, processedContent, runs, uploads, synced, notebook, returned,
                 before>>
  /\ UNCHANGED <<appVars, acctVars, courseVars>>

\* a loop that ends at the first document that fails
NextFileAbort(ok) ==
  /\ success' = IF ok THEN success + 1 ELSE success
  /\ failed' = IF ok THEN failed ELSE failed + 1
  /\ fileIdx' = fileIdx + 1
  /\ syncPc' = IF ok /\ fileIdx + 1 < Len(files) THEN "syncFile" ELSE "done"
  /\ assets' = <<>> /\ assetIdx' = 0 /\ processedContent' = <<>> /\ returned' = <<>>

\* the loop of main moves to the next candidate, or ends
NextFile(ok) ==
  /\ success' = IF ok THEN success + 1 ELSE success
  /\ failed' = IF ok THEN failed ELSE failed + 1
  /\ fileIdx' = fileIdx + 1
  /\ syncPc' = IF fileIdx + 1 < Len(files) THEN "syncFile" ELSE "done"
  /\ assets' = <<>> /\ assetIdx' = 0 /\ processedContent' = <<>> /\ returned' = <<>>

\* syncFile up to the first upload: the file is read (or the read throws) and
\* the references are collected
SyncFileRead(readOk) ==
  /\ syncPc = "syncFile"
  /\ IF ~readOk
       THEN NextFile(FALSE)
       ELSE LET content == notebook[files[fileIdx + 1]] IN
            /\ processedContent' = content
            /\ returned' = <<>>
            /\ assets' = CollectAssets(content)
            /\ assetIdx' = 1
            /\ syncPc' = IF CollectAssets(content) = <<>> THEN "upsert" ELSE "assets"
            /\ UNCHANGED <<fileIdx, success, failed>>
  /\ trace' = Append(trace, IF readOk THEN "read" ELSE "no read")
  /\ UNCHANGED <<course_pages, bucket, uploadedAssets, files, runs, uploads, synced,
                 notebook, scanned, before>>
  /\ UNCHANGED <<appVars, acctVars, courseVars>>

\* one turn of the upload loop of processMarkdownContent
UploadAndReplace(outcome) ==
  /\ syncPc = "assets"
  /\ LET asset == assets[assetIdx]
         storagePath == asset.relativePath
         res == uploadAsset(uploadedAssets, storagePath, outcome)
         was == uploads[storagePath]
     IN /\ uploadedAssets' = res.cache
        /\ trace' = Append(trace, IF ~res.wrote THEN "no upload"
                                   ELSE IF res.stored THEN "uploaded" ELSE "upload failed")
        /\ bucket' = IF res.stored THEN bucket \cup {storagePath} ELSE bucket
        /\ uploads' = [uploads EXCEPT ![storagePath] =
             [calls |-> was.calls + 1,
              attempts |-> was.attempts + (IF res.wrote THEN 1 ELSE 0),
              stored |-> was.stored + (IF res.stored THEN 1 ELSE 0),
              late |-> was.late \/ ((res.wrote \/ res.url = "") /\ was.results \ {""} # {}),
              results |-> was.results \cup {res.url},
              last |-> res.url]]
        /\ IF res.threw
             \* processMarkdownContent has no catch: the error reaches syncFile's
             THEN NextFile(FALSE)
             ELSE /\ processedContent' =
                       IF res.url # ""
                         THEN ReplaceFirst(processedContent, asset.fullMatch,
                                           NewRef(asset, res.url))
                         ELSE processedContent
                  /\ returned' = Append(returned, res.url)
                  /\ assetIdx' = assetIdx + 1
                  /\ syncPc' = IF assetIdx < Len(assets) THEN "assets" ELSE "upsert"
                  /\ UNCHANGED <<fileIdx, success, failed, assets>>
  /\ UNCHANGED <<course_pages, files, runs, synced, notebook, scanned, before>>
  /\ UNCHANGED <<appVars, acctVars, courseVars>>

\* syncFile: the upsert and its result
UpsertPage(ok) ==
  /\ syncPc = "upsert"
  /\ LET name == files[fileIdx + 1]
         row == [slug |-> generateSlug(name), title |-> name,
                 sort_order |-> extractSortOrder(name, fileIdx),
                 md_content |-> processedContent, updated_at |-> runs]
     IN IF ok
          THEN /\ course_pages' = Upsert(course_pages, row)
               /\ synced' = IF name \in DOMAIN synced
                               THEN [synced EXCEPT ![name] = IF @ < 2 THEN @ + 1 ELSE @]
                               ELSE synced
          ELSE UNCHANGED <<course_pages, synced>>
  /\ NextFile(ok)
  /\ trace' = Append(trace, IF ok THEN "upsert" ELSE "no upsert")
  /\ UNCHANGED <<bucket, uploadedAssets, files, runs, uploads, notebook, scanned, before>>
  /\ UNCHANGED <<appVars, acctVars, courseVars>>

SyncNext ==
  \/ \E hasKey \in BOOLEAN : Startup(hasKey)
  \/ \E answer \in {"error", "absent", "present"}, scan \in Scans :
       ListBucketsReturn(answer, scan)
  \/ \E readOk \in BOOLEAN : SyncFileRead(readOk)
  \/ \E outcome \in {"ok", "error"} : UploadAndReplace(outcome)
  \/ \E ok \in BOOLEAN : UpsertPage(ok)

\* the loop of main is about to start: the key is set, the bucket exists, the
\* scan found the candidates of scan and book is the content root
MainLoopStart(scan, book) ==
  /\ course_pages = <<>>
  /\ bucket = {}
  /\ syncPc = "syncFile"
  /\ uploadedAssets = <<>>
  /\ files = SortFiles(scan)
  /\ fileIdx = 0
  /\ success = 0
  /\ failed = 0
  /\ assets = <<>>
  /\ assetIdx = 0
  /\ processedContent = <<>>
  /\ runs = 1
  /\ uploads = NoUploads
  /\ synced = [n \in DocNames |-> 0]
  /\ scanned = scan
  /\ returned = <<>>
  /\ notebook = book
  /\ trace = <<"key", "present">>
  /\ before = NoBefore

\* the loop of main and syncFile, without the start of the script
FileNext ==
  \/ \E readOk \in BOOLEAN : SyncFileRead(readOk)
  \/ \E outcome \in {"ok", "error"} : UploadAndReplace(outcome)
  \/ \E ok \in BOOLEAN : UpsertPage(ok)

\* the pieces a document is made of, and the documents of up to MaxDocLen pieces
DocTokens == {"T", "!", "[x]", "[$$]", "(image/a.png)", "(image/m.png)", "(file/f.gz)",
              "(file/f.gz 't')"}
Docs == UNION {[1..n -> DocTokens] : n \in 0..MaxDocLen}

(***************************************************************************)
(* Accounts: usernames, contact addresses and the account file.            *)
(* A string is a sequence of characters.                                   *)
(***************************************************************************)
\* the characters of [a-zA-Z0-9_]
WordChars == UpperCase \cup LowerCase \cup Digits \cup {"_"}

\* /^[a-zA-Z0-9_]+$/.test(s)
MatchesWord(s) == Len(s) > 0 /\ \A i \in 1..Len(s) : s[i] \in WordChars

\* s.toLowerCase()
StringToLowerCase(s) == [i \in 1..Len(s) |-> toLowerCase(s[i])]

LocalDomain == <<"@", "l", "o", "c", "a", "l", ".", "i", "n", "v", "a", "l", "i", "d">>
ImportDomain == <<"@", "g", "z", "d", "l", "a", "b", ".", "c", "o", "m">>

\* lib/supabase.ts: `${username.toLowerCase().trim()}@local.invalid`
usernameToEmail(name) == Trim(StringToLowerCase(name)) \o LocalDomain

\* the import script: `${username.toLowerCase().trim()}@gzdlab.com`
usernameToEmailImport(name) == Trim(StringToLowerCase(name)) \o ImportDomain

\* s.indexOf(pattern), 1-based; 0 when pattern does not occur in s
IndexOf(s, pattern) ==
  LET at(i) == SubSeq(s, i, i + Len(pattern) - 1) = pattern
      starts == {i \in 1..(Len(s) - Len(pattern) + 1) : at(i)}
  IN IF starts = {} THEN 0 ELSE CHOOSE i \in starts : \A j \in starts : i <= j

\* lib/supabase.ts: email.replace('@local.invalid', ''), the first occurrence only
emailToUsername(email) ==
  LET i == IndexOf(email, LocalDomain)
  IN IF i = 0 THEN email
     ELSE SubSeq(email, 1, i - 1) \o SubSeq(email, i + Len(LocalDomain), Len(email))

\* the separators of line.split(/[\s,]+/)
FieldSep == WhiteSpace \cup {","}

\* line.split(/[\s,]+/).filter(Boolean): the maximal runs of non-separators
RECURSIVE SplitFields(_)

SplitFields(s) ==
  LET rest == DropWhile(s, FieldSep)
      stops == {i \in 1..Len(rest) : rest[i] \in FieldSep}
      end == IF stops = {} THEN Len(rest)
             ELSE (CHOOSE i \in stops : \A j \in stops : i <= j) - 1
  IN IF rest = <<>> THEN <<>>
     ELSE <<SubSeq(rest, 1, end)>> \o SplitFields(SubSeq(rest, end + 1, Len(rest)))

\* the body of the for loop without the check of the secret's length
ParseLineAnySecret(raw) ==
  LET line == Trim(raw)
      parts == SplitFields(line)
  IN IF line = <<>> \/ line[1] = "#" THEN <<>>
     ELSE IF Len(parts) < 2 THEN <<>>
     ELSE IF ~MatchesWord(parts[1]) THEN <<>>
     ELSE <<[username |-> StringToLowerCase(parts[1]), password |-> parts[2]]>>

\* the body of the for loop of parseAccountFile on one line: the account
\* the line gives, or nothing when the line is skipped (a blank line is
\* dropped by the filter before the loop, and skipped by it as well)
ParseLine(raw) ==
  LET line == Trim(raw)
      parts == SplitFields(line)
  IN IF line = <<>> \/ line[1] = "#" THEN <<>>
     ELSE IF Len(parts) < 2 THEN <<>>
     ELSE IF ~MatchesWord(parts[1]) THEN <<>>
     ELSE IF Len(parts[2]) < 6 THEN <<>>
     ELSE <<[username |-> StringToLowerCase(parts[1]), password |-> parts[2]]>>

RECURSIVE parseAccountFile(_)

parseAccountFile(lines) ==
  IF lines = <<>> THEN <<>>
  ELSE ParseLine(Head(lines)) \o parseAccountFile(Tail(lines))

(***************************************************************************)
(* Accounts: the identity provider, the profiles it triggers, the import   *)
(* script, the Signup page and the Admin page.                             *)
(***************************************************************************)
\* the App's state apart from the profiles table
appState == <<session, profile, loading, error, path, getSessionPc, logoutPc, fetches,
              nNotifications, lastNotified, adoptRid, resolved>>

Registered(reg, email) == \E i \in 1..Len(reg) : reg[i].email = email

\* the id the provider gives to the next user
FreshId(reg) == "n" \o ToString(Len(reg) + 1)

\* trigger on_auth_user_created: handle_new_user() inserts the profile of a
\* new user, inactive and not an admin (when the insert is refused, the
\* username being taken, the registration fails: the provider's answer "error")
HandleNewUser(rows, id) == InsertProfile(rows, Row(id, FALSE, FALSE)).rows

\* an update without the .eq('id', ...) filter
UpdateFlagNoFilter(rows, id, flag, value) ==
  [i \in 1..Len(rows) |-> [rows[i] EXCEPT ![flag] = value]]

\* .from('profiles').update({ [flag]: value }).eq('id', id)
UpdateFlag(rows, id, flag, value) ==
  [i \in 1..Len(rows) |-> IF rows[i].id = id THEN [rows[i] EXCEPT ![flag] = value]
                          ELSE rows[i]]

\* ---- the import script
\* main up to its loop: the key check, parseAccountFile, the empty case
ImportStart(hasKey, hasFile) ==
  /\ importPc = "idle"
  /\ IF ~hasKey \/ ~hasFile
       THEN importPc' = "exit1" /\ UNCHANGED <<accounts, acctIdx>>
       ELSE /\ accounts' = parseAccountFile(accountFile)
            /\ importPc' = IF accounts' = <<>> THEN "empty" ELSE "create"
            /\ acctIdx' = 1
  /\ UNCHANGED <<accountFile, created, skipped, importFailed, newUser, createCalls>>
  /\ UNCHANGED <<authUsers, signupVars, adminVars, appVars, syncVars, histVars, courseVars>>

\* the end of one round of the for loop of main
NextAccount ==
  /\ acctIdx' = acctIdx + 1
  /\ importPc' = IF acctIdx + 1 > Len(accounts) THEN "done" ELSE "create"

\* createUser up to the answer of auth.admin.createUser; the round of the
\* loop ends here unless the user was created
CreateUser(outcome) ==
  /\ importPc = "create"
  /\ LET account == accounts[acctIdx]
         email == usernameToEmailImport(account.username)
         id == FreshId(authUsers)
     IN /\ createCalls' = Append(createCalls, [email |-> email,
                                               password |-> account.password,
                                               username |-> account.username])
        /\ IF Registered(authUsers, email)
             THEN /\ skipped' = skipped + 1
                  /\ NextAccount
                  /\ UNCHANGED <<authUsers, profiles, newUser, created, importFailed>>
           ELSE IF outcome = "error"
             THEN /\ importFailed' = importFailed + 1
                  /\ NextAccount
                  /\ UNCHANGED <<authUsers, profiles, newUser, created, skipped>>
           ELSE /\ authUsers' = Append(authUsers, [id |-> id, email |-> email,
                                                   username |-> account.username])
                /\ profiles' = HandleNewUser(profiles, id)
                /\ newUser' = id
                /\ importPc' = "activate"
                /\ UNCHANGED <<acctIdx, created, skipped, importFailed>>
  /\ UNCHANGED <<accountFile, accounts>>
  /\ UNCHANGED <<signupVars, adminVars, appState, syncVars, histVars, courseVars>>

\* createUser from the activation update to its return, and the tally of main
ActivateUser(ok) ==
  /\ importPc = "activate"
  /\ profiles' = IF ok THEN UpdateFlag(profiles, newUser, "is_active", TRUE) ELSE profiles
  /\ created' = created + 1
  /\ newUser' = ""
  /\ NextAccount
  /\ UNCHANGED <<accountFile, accounts, skipped, importFailed, createCalls>>
  /\ UNCHANGED <<authUsers, signupVars, adminVars, appState, syncVars, histVars, courseVars>>

ImportNext ==
  \/ \E hasKey \in BOOLEAN, hasFile \in BOOLEAN : ImportStart(hasKey, hasFile)
  \/ \E outcome \in {"ok", "error"} : CreateUser(outcome)
  \/ \E ok \in BOOLEAN : ActivateUser(ok)

\* ---- the Signup page
\* the checks of handleSignup without the check of the username's format
ValidationErrorNoFormat(name, secret, confirmation) ==
  IF Len(name) < 3 THEN "username-length"
  ELSE IF Len(secret) < 6 THEN "password-length"
  ELSE IF secret # confirmation THEN "mismatch"
  ELSE ""

\* the checks of handleSignup, in its order: the message, "" when all pass
ValidationError(name, secret, confirmation) ==
  IF Len(name) < 3 THEN "username-length"
  ELSE IF Len(secret) < 6 THEN "password-length"
  ELSE IF secret # confirmation THEN "mismatch"
  ELSE IF ~MatchesWord(name) THEN "username-format"
  ELSE ""

\* handleSignup up to the await of signUp, or to its return after a failed check
HandleSignup ==
  /\ signupPc = "idle" /\ signupPath = "Signup" /\ ~signupLoading
  /\ submits < MaxSubmits
  /\ submits' = submits + 1
  /\ LET message == ValidationError(username, password, confirmPassword)
     IN IF message # ""
          THEN /\ signupError' = message
               /\ signupLoading' = FALSE
               /\ UNCHANGED <<signupPc, signUpCalls>>
          ELSE /\ signupError' = ""
               /\ signupLoading' = TRUE
               /\ signupPc' = "signUp"
               /\ signUpCalls' = Append(signUpCalls,
                    [email |-> usernameToEmail(username), password |-> password,
                     username |-> Trim(StringToLowerCase(username)),
                     typed |-> username])
  /\ UNCHANGED <<username, password, confirmPassword, signupPath>>
  /\ UNCHANGED <<authUsers, importVars, adminVars, appVars, syncVars, histVars, courseVars>>

\* handleSignup from the answer of signUp to its end
SignUpReturn(outcome) ==
  /\ signupPc = "signUp"
  /\ LET call == signUpCalls[Len(signUpCalls)]
         id == FreshId(authUsers)
     IN IF Registered(authUsers, call.email)
          THEN /\ signupError' = "registered"
               /\ UNCHANGED <<authUsers, profiles, signupPath>>
        ELSE IF outcome = "ok"
          THEN /\ authUsers' = Append(authUsers, [id |-> id, email |-> call.email,
                                                  username |-> call.username])
               /\ profiles' = HandleNewUser(profiles, id)
               /\ signupPath' = "Pending"
               /\ UNCHANGED signupError
        ELSE /\ signupError' = IF outcome = "error" THEN "error" ELSE "failed"
             /\ UNCHANGED <<authUsers, profiles, signupPath>>
  /\ signupLoading' = FALSE
  /\ signupPc' = "idle"
  /\ UNCHANGED <<username, password, confirmPassword, signUpCalls, submits>>
  /\ UNCHANGED <<importVars, adminVars, appState, syncVars, histVars, courseVars>>

SignupNext ==
  \/ HandleSignup
  \/ \E outcome \in {"ok", "error", "throw"} : SignUpReturn(outcome)

\* ---- the Admin page
Reverse(s) == [i \in 1..Len(s) |-> s[Len(s) + 1 - i]]

\* fetchUsers: on mount, and from the retry button of the error view
FetchUsers(ok) ==
  /\ adminLoading \/ adminError # ""
  /\ IF ok THEN adminUsers' = Reverse(profiles) /\ UNCHANGED adminError
           ELSE adminError' = "load" /\ UNCHANGED adminUsers
  /\ adminLoading' = FALSE
  /\ UNCHANGED <<activating, toggles, nToggles>>
  /\ UNCHANGED <<authUsers, importVars, signupVars, appVars, syncVars, histVars, courseVars>>

\* toggleActive / toggleAdmin up to the await of the update: the call holds
\* the id and the status the page displays, and the users of this render
ToggleCall(flag, i) ==
  /\ ~adminLoading /\ adminError = ""
  /\ i \in 1..Len(adminUsers)
  /\ activating # adminUsers[i].id
  /\ nToggles < MaxToggles
  /\ nToggles' = nToggles + 1
  /\ activating' = adminUsers[i].id
  /\ toggles' = toggles \cup {[n |-> nToggles + 1, flag |-> flag,
                               userId |-> adminUsers[i].id,
                               currentStatus |-> adminUsers[i][flag],
                               users |-> adminUsers, pc |-> "update"]}
  /\ UNCHANGED <<adminUsers, adminLoading, adminError>>
  /\ UNCHANGED <<authUsers, importVars, signupVars, appVars, syncVars, histVars, courseVars>>

toggleActive(i) == ToggleCall("is_active", i)

toggleAdmin(i) == ToggleCall("is_admin", i)

\* the store applies the update of a toggle, or refuses it
ToggleUpdate(t, ok) ==
  /\ t \in toggles /\ t.pc = "update"
  /\ profiles' = IF ok THEN UpdateFlag(profiles, t.userId, t.flag, ~t.currentStatus)
                 ELSE profiles
  /\ toggles' = (toggles \ {t}) \cup {[t EXCEPT !.pc = IF ok THEN "ok" ELSE "error"]}
  /\ UNCHANGED <<adminUsers, adminLoading, adminError, activating, nToggles>>
  /\ UNCHANGED <<authUsers, importVars, signupVars, appState, syncVars, histVars, courseVars>>

\* toggleActive / toggleAdmin from the answer of the update to the end
ToggleReturn(t) ==
  /\ t \in toggles /\ t.pc \in {"ok", "error"}
  /\ adminUsers' = IF t.pc = "ok"
                     THEN [i \in 1..Len(t.users) |->
                             IF t.users[i].id = t.userId
                               THEN [t.users[i] EXCEPT ![t.flag] = ~t.currentStatus]
                               ELSE t.users[i]]
                     ELSE adminUsers
  /\ activating' = ""
  /\ toggles' = toggles \ {t}
  /\ UNCHANGED <<adminLoading, adminError, nToggles>>
  /\ UNCHANGED <<authUsers, importVars, signupVars, appVars, syncVars, histVars, courseVars>>

AdminNext ==
  \/ \E ok \in BOOLEAN : FetchUsers(ok)
  \/ \E i \in 1..Len(adminUsers) : toggleActive(i)
  \/ \E i \in 1..Len(adminUsers) : toggleAdmin(i)
  \/ \E t \in toggles, ok \in BOOLEAN : ToggleUpdate(t, ok)
  \/ \E t \in toggles : ToggleReturn(t)

\* ---- the course list page
\* .select('id, slug, title, sort_order, created_at, updated_at'): a row
\* without its md_content
ListItem(row) == [slug |-> row.slug, title |-> row.title, sort_order |-> row.sort_order,
                  updated_at |-> row.updated_at]

\* .order('sort_order', { ascending: true }), rows of equal order as stored
RECURSIVE OrderBySortOrder(_)

OrderBySortOrder(rows) ==
  IF rows = <<>> THEN <<>>
  ELSE LET least == CHOOSE i \in 1..Len(rows) :
                      /\ \A j \in 1..Len(rows) : rows[i].sort_order <= rows[j].sort_order
                      /\ \A j \in 1..(i - 1) : rows[j].sort_order # rows[i].sort_order
       IN <<rows[least]>> \o
            OrderBySortOrder(SubSeq(rows, 1, least - 1) \o SubSeq(rows, least + 1, Len(rows)))

\* fetchCourses: on mount, and from the retry button of the error view
FetchCourses(ok) ==
  /\ courseLoading \/ courseError # ""
  /\ IF ok THEN /\ courses' = [i \in 1..Len(course_pages) |->
                                ListItem(OrderBySortOrder(course_pages)[i])]
                /\ UNCHANGED courseError
           ELSE courseError' = "load" /\ UNCHANGED courses
  /\ courseLoading' = FALSE
  /\ UNCHANGED <<appVars, syncVars, histVars, acctVars>>

\* what the course list page and the Admin page return
CourseView ==
  IF courseLoading THEN "Loading"
  ELSE IF courseError # "" THEN "Error"
  ELSE IF Len(courses) = 0 THEN "Empty"
  ELSE "List"

AdminView ==
  IF adminLoading THEN "Loading"
  ELSE IF adminError # "" THEN "Error"
  ELSE "List"

CourseInit ==
  /\ courses = <<>>
  /\ courseLoading = TRUE
  /\ courseError = ""

\* ---- states to start from
ImportInit(file) ==
  /\ accountFile = file
  /\ importPc = "idle"
  /\ accounts = <<>>
  /\ acctIdx = 0
  /\ created = 0
  /\ skipped = 0
  /\ importFailed = 0
  /\ newUser = ""
  /\ createCalls = <<>>

SignupInit(name, secret, confirmation) ==
  /\ username = name
  /\ password = secret
  /\ confirmPassword = confirmation
  /\ signupLoading = FALSE
  /\ signupError = ""
  /\ signupPc = "idle"
  /\ signupPath = "Signup"
  /\ signUpCalls = <<>>
  /\ submits = 0

AdminInit ==
  /\ adminUsers = <<>>
  /\ adminLoading = TRUE
  /\ adminError = ""
  /\ activating = ""
  /\ toggles = {}
  /\ nToggles = 0

\* no account script or page is running, nobody has registered, the course
\* list page has not fetched
AcctIdle ==
  /\ authUsers = <<>>
  /\ ImportInit(<<>>)
  /\ SignupInit(<<>>, <<>>, <<>>)
  /\ AdminInit
  /\ CourseInit

\* secrets of 4, 6 and 6 characters
Secret4 == <<"p", "w", "1", "2">>
Secret6 == <<"p", "w", "1", "2", "3", "4">>
Secret6b == <<"p", "w", "1", "2", "3", "5">>

\* the lines of an account file: padding, a first field of up to MaxFieldLen
\* characters, a separator, a secret and a tail, each of which may be empty
FieldChars == {"a", "A", "1", "_", "-", "#"}
Fields == UNION {[1..n -> FieldChars] : n \in 0..MaxFieldLen}
Lines ==
  {pad \o field \o sep \o secret \o tail :
     pad \in {<<>>, <<" ">>},
     field \in Fields,
     sep \in {<<>>, <<" ">>, <<",">>, <<" ", ",">>},
     secret \in {<<>>, Secret4, Secret6},
     tail \in {<<>>, <<" ">>, <<" ", "x">>}}

LineValid == <<"A", "b", "1", " ", "p", "w", "1", "2", "3", "4">>
LineShortSecret == <<"b", "1", " ", "p", "w", "1", "2">>
LineComment == <<"#", " ", "a", "1", " ", "p", "w", "1", "2", "3", "4">>
LineBlank == <<" ", " ">>
LineExamples == {LineValid, LineShortSecret, LineComment, LineBlank}

\* account files of one line of Lines, or of two example lines
AccountFiles ==
  {<<>>} \cup {<<l>> : l \in Lines} \cup {<<l1, l2>> : l1 \in LineExamples, l2 \in LineExamples}

\* the usernames and secrets typed into the Signup page
UserChars == {"a", "A", "_", "-"}
SignupNames == UNION {[1..n -> UserChars] : n \in 0..MaxUserLen}
SignupSecrets == {Secret4, Secret6, Secret6b}
NameValid == <<"A", "b", "1">>

\* users registered earlier: a1 by an import, aaa through the Signup page
EarlierUsers ==
  <<[id |-> "n1", email |-> usernameToEmailImport(<<"a", "1">>), username |-> <<"a", "1">>],
    [id |-> "n2", email |-> usernameToEmail(<<"a", "a", "a">>),
     username |-> <<"a", "a", "a">>]>>
EarlierProfiles == <<Row("n1", TRUE, FALSE), Row("n2", FALSE, FALSE)>>

\* the App, not started
AppIdle ==
  /\ profiles = <<>>
  /\ session = NoSession /\ profile = None /\ loading = TRUE /\ error = ""
  /\ path = "Login" /\ getSessionPc = "pending" /\ logoutPc = "idle"
  /\ fetches = {} /\ nNotifications = 0 /\ lastNotified = NoSession
  /\ adoptRid = 0 /\ resolved = [u \in Users |-> "none"]

\* the App runs, no sync run is made
AppSpecInit == AppInit /\ SyncInit /\ notebook = <<>> /\ AcctIdle
AppSpec == AppSpecInit /\ [][AppNext]_vars

\* the App with its promises settling: getSession() resolves and every store
\* call of fetchProfile returns, after which fetchProfile resumes
AppLiveSpec ==
  /\ AppSpecInit
  /\ [][AppNext]_vars
  /\ WF_vars(\E s \in Sessions : GetSessionReturn(s))
  /\ WF_vars(\E r \in fetches, f \in Failures : ServerSelect(r, f))
  /\ WF_vars(\E r \in fetches : HandleSelect(r))
  /\ WF_vars(\E r \in fetches, f \in Failures : ServerInsert(r, f))
  /\ WF_vars(\E r \in fetches : HandleInsert(r))

\* sync runs are made, the App is not started
SyncSpecInit == SyncInit /\ notebook \in Notebooks /\ AppIdle /\ AcctIdle
SyncSpec == SyncSpecInit /\ [][SyncNext]_vars

\* processMarkdownContent on every document of Docs: one run over a content
\* root that holds one document
RewriteSpecInit ==
  /\ \E d \in Docs : MainLoopStart(<<NamePlain>>, [n \in {NamePlain} |-> d])
  /\ AppIdle
  /\ AcctIdle
RewriteSpec == RewriteSpecInit /\ [][FileNext]_vars

\* the derivations of slug, title and sort order on every name of Names: one
\* run over a content root whose documents each hold one image reference
NameChars == {"Di", "Yi", "Shi", "Bai", "Ke", "-", " ", "0", "3", "A", "!"}
NameIntro == <<"Di", "Yi", "Ke", "-", "a">>
NameAdvanced == <<"0", "3", "-", "b">>
NameBoth == <<"Di", "Yi", "Ke", "-", "0", "3", "-", "b">>
NamePadded == <<" ", "A", " ", " ", "b", " ">>
Names ==
  UNION {[1..n -> NameChars] : n \in 1..MaxNameLen}
    \cup {NameIntro, NameAdvanced, NameBoth, NamePadded, NameLesson1, NameTool}
\* what the scan found: one document, one document after an unprefixed one,
\* or the six documents of ScanSix (the name Gong in four directories)
ScanSix == <<NameIntro, NamePlain, NamePlain, NamePlain, NamePlain, NameAdvanced>>
DeriveScans == {<<n>> : n \in Names} \cup {<<NamePlain, n>> : n \in Names} \cup {ScanSix}
DeriveSpecInit ==
  /\ \E scan \in DeriveScans :
       MainLoopStart(scan, [n \in {scan[i] : i \in 1..Len(scan)} |-> DocOne])
  /\ AppIdle
  /\ AcctIdle
DeriveSpec == DeriveSpecInit /\ [][FileNext]_vars

\* the import script runs over an account file and the Signup page is used,
\* against the same identity provider
AccountNext == ImportNext \/ SignupNext

AccountSpecInit ==
  /\ \/ /\ \E file \in AccountFiles : ImportInit(file)
        /\ SignupInit(<<>>, <<>>, <<>>)
     \/ /\ ImportInit(<<LineValid>>)
        /\ \E name \in SignupNames \cup {NameValid}, secret \in SignupSecrets,
              confirmation \in SignupSecrets : SignupInit(name, secret, confirmation)
  /\ \/ authUsers = <<>> /\ profiles = <<>>
     \/ authUsers = EarlierUsers /\ profiles = EarlierProfiles
  /\ AdminInit
  /\ CourseInit
  /\ session = NoSession /\ profile = None /\ loading = TRUE /\ error = ""
  /\ path = "Signup" /\ getSessionPc = "pending" /\ logoutPc = "idle"
  /\ fetches = {} /\ nNotifications = 0 /\ lastNotified = NoSession
  /\ adoptRid = 0 /\ resolved = [u \in Users |-> "none"]
  /\ SyncInit /\ notebook = <<>>
AccountSpec == AccountSpecInit /\ [][AccountNext]_vars

\* the App resolves the profile of its session while an Admin page is used
\* and the import script runs
ResolveNext ==
  \/ \E s \in Sessions : GetSessionReturn(s)
  \/ \E r \in fetches, fail \in Failures : ServerSelect(r, fail)
  \/ \E r \in fetches : HandleSelect(r)
  \/ \E r \in fetches, fail \in Failures : ServerInsert(r, fail)
  \/ \E r \in fetches : HandleInsert(r)

AdminSpecNext == ResolveNext \/ AdminNext \/ ImportNext

AdminSpecInit ==
  /\ AppInit /\ path = "Admin"
  /\ SyncInit /\ notebook = <<>>
  /\ authUsers = <<>>
  /\ ImportInit(<<LineValid>>)
  /\ SignupInit(<<>>, <<>>, <<>>)
  /\ AdminInit
  /\ CourseInit
AdminSpec == AdminSpecInit /\ [][AdminSpecNext]_vars

\* one Admin page is used and nothing else writes to the profiles table
ToggleSpecInit ==
  /\ AppInit /\ path = "Admin"
  /\ SyncInit /\ notebook = <<>>
  /\ AcctIdle
ToggleSpec == ToggleSpecInit /\ [][AdminNext]_vars

\* the course list page and the Admin page fetch their lists, with retries,
\* from a store that a sync run and earlier registrations have filled
CoursePage(name, index) ==
  [slug |-> generateSlug(name), title |-> name, sort_order |-> extractSortOrder(name, index),
   md_content |-> DocPlain, updated_at |-> 1]
StoredPages ==
  {<<>>, <<CoursePage(NameTool, 0)>>, <<CoursePage(NameTool, 0), CoursePage(NameLesson1, 1)>>}

ListNext ==
  \/ \E ok \in BOOLEAN : FetchUsers(ok)
  \/ \E ok \in BOOLEAN : FetchCourses(ok)

ListSpecInit ==
  /\ AppInit /\ path = "CourseList"
  /\ course_pages \in StoredPages
  /\ bucket = {} /\ syncPc = "idle" /\ uploadedAssets = <<>> /\ files = <<>>
  /\ fileIdx = 0 /\ success = 0 /\ failed = 0 /\ assets = <<>> /\ assetIdx = 0
  /\ processedContent = <<>> /\ runs = 0 /\ uploads = NoUploads
  /\ synced = [n \in DocNames |-> 0] /\ scanned = <<>> /\ returned = <<>>
  /\ notebook = <<>>
  /\ trace = <<>> /\ before = NoBefore
  /\ authUsers = <<>>
  /\ ImportInit(<<>>)
  /\ SignupInit(<<>>, <<>>, <<>>)
  /\ AdminInit
  /\ CourseInit
ListSpec == ListSpecInit /\ [][ListNext]_vars

(***************************************************************************)
(* Properties of the App.                                                  *)
(***************************************************************************)
\* the decision table of the access-control design, row by row
TableDecision(hasSession, active, admin, screen) ==
  IF ~hasSession THEN
    IF screen \in {"Login", "Signup"} THEN Render(screen) ELSE RedirectTo("Login")
  ELSE IF ~active THEN
    IF screen = "Pending" THEN Render("Pending") ELSE RedirectTo("Pending")
  ELSE IF ~admin THEN
    CASE screen \in {"CourseList", "CourseDetail"} -> Render(screen)
      [] screen = "Signup" -> RedirectTo("Pending")
      [] OTHER -> RedirectTo("CourseList")
  ELSE
    CASE screen \in {"CourseList", "CourseDetail", "Admin"} -> Render(screen)
      [] screen = "Signup" -> RedirectTo("Pending")
      [] OTHER -> RedirectTo("CourseList")

\* the fetchProfile call r ends in this step on one of its failure branches
FailsNow(r) ==
  /\ r \in fetches
  /\ \/ r.pc = "selected" /\ r.outcome \in {"error", "throw"}
     \/ r.pc = "inserted" /\ r.outcome \in {"duplicate", "error", "throw"}
  /\ \A q \in fetches' : q.rid # r.rid

\* nothing is in flight: getSession has resolved, no fetchProfile and no
\* signOut is pending
Quiescent == fetches = {} /\ getSessionPc = "done" /\ logoutPc = "idle"

\* C1: whenever the routes are evaluated, the guard's decision for the held
\* flags and the requested screen is the cell of the decision table.
C1_GuardMatchesTable ==
  View = "Routes" =>
    RouteDecision = TableDecision(isAuthenticated, isActive, isAdmin, path)

\* C2: the Admin screen is rendered only with a session and a held profile
\* that is active and admin, and a signed-in inactive user who asks for Admin
\* is redirected to Pending.
C2_AdminNeedsActiveAdmin ==
  /\ Rendered("Admin") =>
       session # NoSession /\ profile # None /\ profile[1].is_active /\ profile[1].is_admin
  /\ (View = "Routes" /\ isAuthenticated /\ profile # None /\ ~profile[1].is_active
        /\ path = "Admin") =>
       RouteDecision = RedirectTo("Pending")

\* C3: while the fetchProfile call started by the latest adoption of a session
\* is in flight, the App shows the loading placeholder.
C3_LoadingUntilResolved == adoptRid # 0 => View = "Loading"

\* C4: when a fetchProfile call for the held session ends on a failure branch,
\* the App shows the error screen; on the error screen no route is evaluated
\* (no redirect can happen) and sign-out is on offer.
C4_ErrorStateOnFailure ==
  /\ [][\A r \in fetches : (FailsNow(r) /\ r.user = session) => View' = "Error"]_vars
  /\ [](View = "Error" =>
          /\ ~loading
          /\ ~ENABLED Redirect
          /\ (logoutPc = "idle" => ENABLED HandleLogout))

C4_Witness ==
  /\ View = "Error"
  /\ resolved[session] = "failed"
  /\ logoutPc = "idle"

\* C5: when the latest completed fetchProfile for the user of the held session
\* failed, no course screen and no Admin screen is rendered.
C5_FailClosed ==
  (session # NoSession /\ resolved[session] = "failed") =>
    ~(Rendered("CourseList") \/ Rendered("CourseDetail") \/ Rendered("Admin"))

\* C6: the profiles table never holds two rows for one identity; a user whose
\* fetchProfile ended well has exactly one row; and the step in which the
\* store accepts a lazy-creation insert leaves exactly one row for that user,
\* with is_active = false and is_admin = false.
C6_OneProfilePerIdentity ==
  /\ [](\A u \in Users :
          /\ Cardinality(RowsOf(profiles, u)) <= 1
          /\ resolved[u] = "ok" => Cardinality(RowsOf(profiles, u)) = 1)
  /\ [][\A r \in fetches :
          (r.pc = "insert" /\ \E q \in fetches' :
             q.rid = r.rid /\ q.pc = "inserted" /\ q.outcome = "row")
          => /\ RowsOf(profiles, r.user) = {}
             /\ Cardinality(RowsOf(profiles', r.user)) = 1
             /\ \A i \in RowsOf(profiles', r.user) :
                  ~profiles'[i].is_active /\ ~profiles'[i].is_admin]_vars

\* two fetchProfile calls raced on the lazy creation of u2's row: one insert
\* was refused, the table holds the one row, and the App holds it
C6_Witness ==
  /\ \E r \in fetches : r.user = "u2" /\ r.pc = "inserted" /\ r.outcome = "duplicate"
  /\ Cardinality(RowsOf(profiles, "u2")) = 1
  /\ resolved["u2"] = "ok"
  /\ profile = Some(Row("u2", FALSE, FALSE))

\* C7: when a fetchProfile call for the held session ends after its insert was
\* refused by the uniqueness constraint, the App holds the existing profile of
\* that user and does not show the error screen.
C7_DuplicateInsertRefetched ==
  [][\A r \in fetches :
       (FailsNow(r) /\ r.outcome = "duplicate" /\ r.user = session)
       => /\ View' # "Error"
          /\ profile' # None
          /\ profile'[1].id = r.user]_vars

\* C8: once nothing is in flight, the held session is the one of the last
\* snapshot, no profile is held without a session, a held profile is the one
\* of the session's user, and it is held when that user's resolution ended well.
C8_LastSnapshotWins ==
  Quiescent =>
    /\ session = lastNotified
    /\ profile # None => (session # NoSession /\ profile[1].id = session)
    /\ (session # NoSession /\ resolved[session] = "ok") => profile # None

(***************************************************************************)
(* Properties of the sync script.                                          *)
(***************************************************************************)
\* C9: the course_pages table never holds two rows with one slug, a document
\* that has been synced has exactly one row under its slug, and the table has
\* no more rows than there are documents synced (a second sync of a name
\* updates its row).
C9_OneRowPerSlug ==
  /\ \A i, j \in 1..Len(course_pages) :
       course_pages[i].slug = course_pages[j].slug => i = j
  /\ \A n \in DocNames :
       synced[n] >= 1 => Cardinality(SlugRows(course_pages, generateSlug(n))) = 1
  /\ Len(course_pages) <= Cardinality({n \in DocNames : synced[n] >= 1})

\* the first lesson has been synced twice, the second time in the second run,
\* and the table holds the one row written by the second run
C9_Witness ==
  /\ synced[NameLesson1] >= 2
  /\ runs = 2
  /\ Len(course_pages) = 1
  /\ course_pages[1].slug = generateSlug(NameLesson1)
  /\ course_pages[1].updated_at = 2

\* C10 as stated: within a run, for every storagePath at most one upload is
\* sent and every call returns the same result.
C10_UploadOncePerPath ==
  \A q \in AssetPaths :
    uploads[q].attempts <= 1 /\ Cardinality(uploads[q].results) <= 1

\* C10 as amended: within a run, for every storagePath at most one upload
\* succeeds, at most one URL is ever returned, it is the cached one, and once
\* a URL has been returned no later call sends an upload or returns null.
C10_StoredOncePerPath ==
  \A q \in AssetPaths :
    /\ uploads[q].stored <= 1
    /\ ~uploads[q].late
    /\ uploads[q].results \ {""} \subseteq
         (IF q \in DOMAIN uploadedAssets THEN {uploadedAssets[q]} ELSE {})

\* the image was asked for twice in this run: the first call stored it, the
\* second was answered from the cache
C10_Witness ==
  /\ uploads["image/a.png"].calls >= 2
  /\ uploads["image/a.png"].attempts = 1
  /\ uploads["image/a.png"].stored = 1
  /\ uploads["image/a.png"].results = {PublicUrl("image/a.png")}


\* this step is a call of uploadAsset for the storagePath q
UploadCall(q) ==
  /\ syncPc = "assets"
  /\ assets[assetIdx].relativePath = q
  /\ uploads'[q].calls = uploads[q].calls + 1

\* C11: a call of uploadAsset never ends the document with an error (the
\* upload loop goes on, nothing is counted as failed); a call for a missing
\* local file returns null and sends no upload; a call whose upload fails
\* returns null; in both cases the cache and the bucket are as before.
C11_NullOnFailure ==
  [][\A q \in AssetPaths : UploadCall(q) =>
       /\ failed' = failed /\ fileIdx' = fileIdx /\ syncPc' \in {"assets", "upsert"}
       /\ q \notin LocalAssets =>
            /\ uploads'[q].last = ""
            /\ uploads'[q].attempts = uploads[q].attempts
            /\ uploadedAssets' = uploadedAssets /\ bucket' = bucket
       /\ (uploads'[q].attempts = uploads[q].attempts + 1
             /\ uploads'[q].stored = uploads[q].stored) =>
            /\ uploads'[q].last = ""
            /\ uploadedAssets' = uploadedAssets /\ bucket' = bucket]_vars

\* in one document the missing image was asked for and the upload of the
\* archive failed: both calls returned null, nothing is cached or stored, and
\* the document goes on to its upsert
C11_Witness ==
  /\ syncPc = "upsert"
  /\ returned = <<"", "">>
  /\ uploads["image/m.png"].calls = 1 /\ uploads["image/m.png"].attempts = 0
  /\ uploads["file/f.gz"].attempts = 1 /\ uploads["file/f.gz"].stored = 0
  /\ uploadedAssets = <<>> /\ bucket = {}



\* the references of a document in the order processMarkdownContent collects
\* them (images, then links), each with the positions of its first piece and
\* of its target
References(content) ==
  LET n == Len(content)
      isImage(i) == i + 2 <= n /\ content[i] = "!" /\ content[i + 1] \in Brackets
                      /\ IsImageTarget(content[i + 2])
      isLink(i) == i + 1 <= n /\ content[i] \in Brackets /\ IsFileTarget(content[i + 1])
      I[i \in 0..n] == IF i = 0 THEN <<>>
                       ELSE IF isImage(i) THEN Append(I[i - 1], [first |-> i, target |-> i + 2])
                       ELSE I[i - 1]
      L[i \in 0..n] == IF i = 0 THEN <<>>
                       ELSE IF isLink(i) THEN Append(L[i - 1], [first |-> i, target |-> i + 1])
                       ELSE L[i - 1]
  IN I[n] \o L[n]

\* the document being synced, as read
Input == notebook[files[fileIdx + 1]]

\* processMarkdownContent has returned
Rewritten == syncPc = "upsert"

\* C12: when the rewriter has returned, every reference whose uploadAsset call
\* returned a URL stands in the output with its marker and alt / text as in
\* the input and the URL, without title, as its target.
C12_ResolvedRewritten ==
  Rewritten =>
    /\ Len(processedContent) = Len(Input)
    /\ \A k \in 1..Len(References(Input)) :
         LET ref == References(Input)[k] IN
         returned[k] # "" =>
           /\ processedContent[ref.target] = "(" \o returned[k] \o ")"
           /\ \A j \in ref.first..(ref.target - 1) : processedContent[j] = Input[j]

\* C13: when the rewriter has returned, every reference whose uploadAsset call
\* returned null is as in the input, every piece outside the references is
\* as in the input, and if no call returned a URL the output is the input.
C13_OnlyResolvedChanged ==
  Rewritten =>
    /\ Len(processedContent) = Len(Input)
    /\ \A k \in 1..Len(References(Input)) :
         LET ref == References(Input)[k] IN
         returned[k] = "" =>
           \A j \in ref.first..ref.target : processedContent[j] = Input[j]
    /\ \A j \in 1..Len(Input) :
         (\A k \in 1..Len(References(Input)) :
            j < References(Input)[k].first \/ j > References(Input)[k].target)
           => processedContent[j] = Input[j]
    /\ (\A k \in 1..Len(returned) : returned[k] = "") => processedContent = Input


\* this step is the failure of the document being synced: its read throws or
\* its upsert answers an error
DocumentFails == SyncFileRead(FALSE) \/ UpsertPage(FALSE)

\* C14: while the loop runs, succeeded + failed is the number of documents
\* done; a failing document is counted as failed and the loop goes on with the
\* next candidate if there is one; failed grows only by such a step; and at
\* the end every candidate has been done and succeeded + failed is their number.
C14_FailureDoesNotAbort ==
  /\ [](syncPc \in {"syncFile", "assets", "upsert"} =>
          success + failed = fileIdx /\ fileIdx < Len(files))
  /\ [](syncPc = "done" => fileIdx = Len(files) /\ success + failed = Len(files))
  /\ [][DocumentFails =>
          /\ failed' = failed + 1 /\ success' = success /\ fileIdx' = fileIdx + 1
          /\ syncPc' = IF fileIdx + 1 < Len(files) THEN "syncFile" ELSE "done"]_vars
  /\ [][(runs' = runs /\ failed' # failed) => DocumentFails]_vars

\* a run of two documents has ended: the first failed, the second was synced
\* after it and is the only row
C14_Witness ==
  /\ syncPc = "done" /\ runs = 1
  /\ Len(files) = 2 /\ files[1] # files[2]
  /\ failed = 1 /\ success = 1
  /\ Len(course_pages) = 1 /\ course_pages[1].title = files[2]


\* this step finds a global precondition unmet: the key is missing, the
\* bucket list is refused, or the bucket is not in the list
PreconditionFails ==
  \/ Startup(FALSE)
  \/ \E scan \in Scans : ListBucketsReturn("error", scan) \/ ListBucketsReturn("absent", scan)

\* C15: a step that finds a global precondition unmet ends the run with exit
\* code 1; a run that has ended so has made no call of uploadAsset, has
\* written no row (no row carries the run's stamp), has not started the loop,
\* and the bucket and the table are as the step found them.
C15_AbortBeforeBatch ==
  /\ [][PreconditionFails =>
          syncPc' = "exit1" /\ course_pages' = course_pages /\ bucket' = bucket]_vars
  /\ [](syncPc = "exit1" =>
          /\ uploads = NoUploads /\ uploadedAssets = <<>>
          /\ \A i \in 1..Len(course_pages) : course_pages[i].updated_at # runs
          /\ files = <<>> /\ fileIdx = 0 /\ success = 0 /\ failed = 0)

\* the second run ended with exit code 1 and the table still holds the row of
\* the first run
C15_Witness ==
  /\ syncPc = "exit1" /\ runs = 2
  /\ Len(course_pages) = 1 /\ course_pages[1].updated_at = 1


(***************************************************************************)
(* Properties of the derivations.                                          *)
(***************************************************************************)
\* the ten numeral words, the n-th being the word for n
TenNumerals == <<"Yi", "Er", "San", "Si", "Wu", "Liu", "Qi", "Ba", "Jiu", "Shi">>

\* the name starts with the ordinal marker, numeral words and the lesson word
HasLessonPattern(name) ==
  \E k \in 3..Len(name) :
    name[1] = "Di" /\ name[k] = "Ke" /\ \A j \in 2..(k - 1) : name[j] \in Numerals

\* the number written by the decimal digits the name starts with
LeadingNumber(name) ==
  LET d == CHOOSE d \in 0..Len(name) :
             /\ \A j \in 1..d : name[j] \in Digits
             /\ d < Len(name) => name[d + 1] \notin Digits
      value(c) == CHOOSE n \in 0..9 : <<"0", "1", "2", "3", "4", "5", "6", "7", "8", "9">>[n + 1] = c
      Pow10[e \in 0..Len(name)] == IF e = 0 THEN 1 ELSE 10 * Pow10[e - 1]
      Sum[j \in 0..d] == IF j = 0 THEN 0 ELSE Sum[j - 1] + value(name[j]) * Pow10[d - j]
  IN Sum[d]

\* the sort order of a name at an index by the three rules, in their order
RuledSortOrder(name, index) ==
  IF HasLessonPattern(name) /\ name[3] = "Ke" /\ \E v \in 1..10 : TenNumerals[v] = name[2]
    THEN CHOOSE v \in 1..10 : TenNumerals[v] = name[2]
  ELSE IF name[1] \in Digits THEN LeadingNumber(name)
  ELSE index + 1

\* this step is the successful upsert of the document being synced
DocumentStored == UpsertPage(TRUE)

\* C16: the row written for a document carries the sort order that the three
\* rules give for its name and its index in the loop.
C16_SortOrderByRules ==
  [][DocumentStored =>
       LET name == files[fileIdx + 1] IN
       /\ \E i \in 1..Len(course_pages') : course_pages'[i].title = name
       /\ \A i \in 1..Len(course_pages') :
            course_pages'[i].title = name =>
              course_pages'[i].sort_order = RuledSortOrder(name, fileIdx)]_vars

\* the six documents have been synced: the first lesson has order 1, the
\* unprefixed name, last synced at index 4, has order 5, and the name that
\* starts with 03 has order 3
C16_Witness ==
  /\ syncPc = "done" /\ scanned = ScanSix /\ success = 6
  /\ Len(course_pages) = 3
  /\ course_pages[1].title = NameIntro /\ course_pages[1].sort_order = 1
  /\ course_pages[2].title = NamePlain /\ course_pages[2].sort_order = 5
  /\ course_pages[3].title = NameAdvanced /\ course_pages[3].sort_order = 3


\* the name has neither a recognized numeral-word prefix nor leading digits
Unprefixed(name) ==
  /\ ~(HasLessonPattern(name) /\ name[3] = "Ke" /\ \E v \in 1..10 : TenNumerals[v] = name[2])
  /\ name[1] \notin Digits

\* C17: the row written for an unprefixed document carries, as sort order, a
\* position at which the scan found that document.
C17_DiscoveryIndex ==
  [][DocumentStored =>
       LET name == files[fileIdx + 1] IN
       Unprefixed(name) =>
         \A i \in 1..Len(course_pages') :
           course_pages'[i].title = name =>
             \E p \in 1..Len(scanned) :
               scanned[p] = name /\ course_pages'[i].sort_order = p]_vars


\* s without the characters of the class it starts with
DropLeading(s, class) ==
  LET m == CHOOSE m \in 0..Len(s) :
             /\ \A j \in 1..m : s[j] \in class
             /\ m < Len(s) => s[m + 1] \notin class
  IN SubSeq(s, m + 1, Len(s))

\* s without the characters of the class it ends with
DropTrailing(s, class) ==
  LET m == CHOOSE m \in 0..Len(s) :
             /\ \A j \in (m + 1)..Len(s) : s[j] \in class
             /\ m > 0 => s[m] \notin class
  IN SubSeq(s, 1, m)

\* the name without its numeral-word lesson prefix and the separators after it
WithoutLessonPrefix(name) ==
  IF HasLessonPattern(name)
    THEN LET k == CHOOSE k \in 3..Len(name) :
                    name[k] = "Ke" /\ \A j \in 2..(k - 1) : name[j] \in Numerals
         IN DropLeading(SubSeq(name, k + 1, Len(name)), LessonSep)
    ELSE name

\* the name without its leading decimal number and the separators after it
WithoutNumberPrefix(name) ==
  IF name # <<>> /\ name[1] \in Digits
    THEN DropLeading(DropLeading(name, Digits), NumberSep)
    ELSE name

\* lower case, one hyphen for each whitespace run, nothing outside word
\* characters, the CJK range and the hyphen
Transform(s) ==
  LET lower(c) == IF c \in UpperCase THEN toLowerCase(c) ELSE c
      piece(i) == IF s[i] \in WhiteSpace
                    THEN IF i > 1 /\ s[i - 1] \in WhiteSpace THEN <<>> ELSE <<"-">>
                  ELSE IF lower(s[i]) \in LowerCase \cup Digits \cup CJK \cup {"_", "-"}
                    THEN <<lower(s[i])>>
                  ELSE <<>>
      Out[i \in 0..Len(s)] == IF i = 0 THEN <<>> ELSE Out[i - 1] \o piece(i)
  IN Out[Len(s)]

\* the two fallbacks
WithFallbacks(slug, name) ==
  IF slug # <<>> THEN slug
  ELSE IF Transform(name) # <<>> THEN Transform(name)
  ELSE Untitled

\* the slug as stated: one ordinal prefix is stripped, then the transform
StatedSlug(name) ==
  WithFallbacks(Transform(IF HasLessonPattern(name) THEN WithoutLessonPrefix(name)
                          ELSE WithoutNumberPrefix(name)), name)

\* the slug as amended: the lesson prefix, then the number prefix are
\* stripped, the rest is trimmed, then the transform
AmendedSlug(name) ==
  WithFallbacks(
    Transform(DropTrailing(DropLeading(WithoutNumberPrefix(WithoutLessonPrefix(name)),
                                       WhiteSpace), WhiteSpace)), name)

\* C18 as stated: the row written for a document carries the slug obtained by
\* stripping one recognized ordinal prefix and transforming, with the two
\* fallbacks, and that slug is not empty.
C18_SlugAsStated ==
  [][DocumentStored =>
       LET name == files[fileIdx + 1] IN
       \A i \in 1..Len(course_pages') :
         course_pages'[i].title = name =>
           course_pages'[i].slug = StatedSlug(name) /\ course_pages'[i].slug # <<>>]_vars

\* C18 as amended: the row written for a document carries the slug obtained by
\* stripping the lesson prefix and then the number prefix, trimming and
\* transforming, with the two fallbacks; the slug is not empty and holds only
\* lower-case word characters, CJK characters and hyphens.
C18_SlugNeverEmpty ==
  [][DocumentStored =>
       LET name == files[fileIdx + 1] IN
       /\ \E i \in 1..Len(course_pages') : course_pages'[i].title = name
       /\ \A i \in 1..Len(course_pages') :
            course_pages'[i].title = name =>
              /\ course_pages'[i].slug = AmendedSlug(name)
              /\ course_pages'[i].slug # <<>>
              /\ \A j \in 1..Len(course_pages'[i].slug) :
                   course_pages'[i].slug[j] \in
                     LowerCase \cup Digits \cup CJK \cup {"_", "-"} \cup {"u", "n", "t", "i", "l", "e", "d"}]_vars

\* a document whose name holds no character of a slug has been stored under
\* the slug 'untitled'
C18_Witness ==
  \E i \in 1..Len(course_pages) :
    course_pages[i].title = <<"!", "!">> /\ course_pages[i].slug = Untitled


(***************************************************************************)
(* Properties of the sync run.                                             *)
(***************************************************************************)
\* the run is over a content root that holds the first lesson (no reference)
\* and the tool document with one image reference, has ended, and no read,
\* upload or upsert failed
TwoDocumentRunDone ==
  /\ syncPc = "done"
  /\ scanned \in {<<NameLesson1, NameTool>>, <<NameTool, NameLesson1>>}
  /\ notebook[NameLesson1] = DocPlain /\ notebook[NameTool] = DocOne
  /\ failed = 0
  /\ \A q \in AssetPaths : uploads[q].attempts = uploads[q].stored

\* C19: at the end of such a run the table holds exactly two rows, the first
\* lesson under the slug of its title with sort order 1 and the tool document
\* under the slug of its title with sort order 2 and the image reference
\* rewritten to the public URL, and the tally is 2 succeeded, 0 failed.
C19_EndToEnd ==
  TwoDocumentRunDone =>
    /\ Len(course_pages) = 2
    /\ \E i, j \in 1..2 :
         /\ course_pages[i].slug = <<"Kai">> /\ course_pages[i].title = NameLesson1
         /\ course_pages[i].sort_order = 1 /\ course_pages[i].md_content = DocPlain
         /\ course_pages[j].slug = <<"Gong">> /\ course_pages[j].title = NameTool
         /\ course_pages[j].sort_order = 2
         /\ course_pages[j].md_content = <<"T", "!", "[x]", "(https://cdn/image/a.png)">>
    /\ success = 2 /\ failed = 0

\* the first run over that content root, the tool document found first, has
\* ended with the two rows, the first lesson synced first
C19_Witness ==
  /\ TwoDocumentRunDone /\ runs = 1
  /\ scanned = <<NameTool, NameLesson1>>
  /\ Len(course_pages) = 2
  /\ course_pages[1].title = NameLesson1 /\ course_pages[2].title = NameTool
  /\ bucket = {"image/a.png"}


\* C20: a call of uploadAsset is made only for the document in the loop, it is
\* the call for the next reference in the order of collection, and it leaves
\* the loop index alone; the table is written only by the upsert of that
\* document, after all its calls have returned; and the loop index moves, by
\* one, only with the step that stores the document or fails it.
C20_OneAfterAnother ==
  /\ [][\A q \in AssetPaths :
          (runs' = runs /\ uploads'[q] # uploads[q]) =>
            /\ syncPc = "assets"
            /\ Len(returned) < Len(References(Input))
            /\ q = TargetPath(Input[References(Input)[Len(returned) + 1].target])
            /\ uploads'[q].calls = uploads[q].calls + 1
            /\ \A o \in AssetPaths \ {q} : uploads'[o] = uploads[o]
            /\ fileIdx' = fileIdx /\ course_pages' = course_pages]_vars
  /\ [][course_pages' # course_pages =>
          /\ syncPc = "upsert"
          /\ Len(returned) = Len(References(Input))
          /\ \E i \in 1..Len(course_pages') :
               /\ course_pages'[i].title = files[fileIdx + 1]
               /\ \A j \in 1..Len(course_pages') \ {i} :
                    j <= Len(course_pages) /\ course_pages'[j] = course_pages[j]
          /\ fileIdx' = fileIdx + 1]_vars
  /\ [][(runs' = runs /\ fileIdx' # fileIdx) =>
          fileIdx' = fileIdx + 1 /\ (DocumentStored \/ DocumentFails)]_vars

\* the second of two documents is at its second upload: the first document
\* is stored, the first call of the second has returned
C20_Witness ==
  /\ syncPc = "assets" /\ fileIdx = 1 /\ assetIdx = 2
  /\ Len(returned) = 1 /\ Len(assets) = 2
  /\ success = 1 /\ Len(course_pages) = 1
  /\ course_pages[1].title = files[1] /\ course_pages[1].updated_at = runs


\* the slugs present in a table
SlugsOf(rows) == {rows[i].slug : i \in 1..Len(rows)}

\* C21: no step removes a slug from the course_pages table.
C21_RowsNeverRemoved ==
  [][SlugsOf(course_pages) \subseteq SlugsOf(course_pages')]_vars

\* the second run has ended; it found one document and stored it, and the row
\* of a document that only the first run found is still in the table
C21_Witness ==
  /\ syncPc = "done" /\ runs = 2 /\ Len(scanned) = 1 /\ success = 1
  /\ \E i, j \in 1..Len(course_pages) :
       /\ course_pages[i].updated_at = 1 /\ course_pages[i].title # scanned[1]
       /\ course_pages[j].updated_at = 2 /\ course_pages[j].title = scanned[1]


\* this step is a call of uploadAsset that returns null
UploadReturnsNull == \E q \in AssetPaths : UploadCall(q) /\ uploads'[q].last = ""

\* C25: a call of uploadAsset that returns null does not fail the document and
\* the loop over its references goes on; when the rewriter has returned every
\* reference whose call returned null is as in the input; and the document
\* goes to its upsert, whose success stores the content and counts the
\* document as succeeded before the run moves on.
C25_FailedUploadDegradesReference ==
  /\ [][UploadReturnsNull =>
          /\ failed' = failed /\ fileIdx' = fileIdx
          /\ assetIdx' = assetIdx + 1
          /\ syncPc' = IF assetIdx < Len(assets) THEN "assets" ELSE "upsert"]_vars
  /\ [](Rewritten =>
          \A k \in 1..Len(References(Input)) :
            returned[k] = "" =>
              \A j \in References(Input)[k].first..References(Input)[k].target :
                processedContent[j] = Input[j])
  /\ [][DocumentStored =>
          /\ success' = success + 1 /\ failed' = failed
          /\ \E i \in 1..Len(course_pages') : course_pages'[i].md_content = processedContent
          /\ syncPc' = IF fileIdx + 1 < Len(files) THEN "syncFile" ELSE "done"]_vars

\* the position in the scan of each candidate in processing order
IsStableSortOf(sorted, scan) ==
  /\ Len(sorted) = Len(scan)
  /\ \E pos \in [1..Len(scan) -> 1..Len(scan)] :
       /\ \A i, j \in 1..Len(scan) : i # j => pos[i] # pos[j]
       /\ \A i \in 1..Len(scan) : sorted[i] = scan[pos[i]]
       /\ \A i, j \in 1..Len(scan) :
            i < j =>
              \/ RuledSortOrder(sorted[i], 0) < RuledSortOrder(sorted[j], 0)
              \/ RuledSortOrder(sorted[i], 0) = RuledSortOrder(sorted[j], 0) /\ pos[i] < pos[j]

\* C26: the candidates of the loop are those of the scan in non-decreasing
\* order of the sort key taken with index 0, candidates with equal keys in
\* scan order; an unprefixed name has key 1; and the loop takes them one by
\* one in that order.
C26_SortedStable ==
  /\ [](syncPc \in {"syncFile", "assets", "upsert", "done"} => IsStableSortOf(files, scanned))
  /\ [](\A i \in 1..Len(files) : Unprefixed(files[i]) => RuledSortOrder(files[i], 0) = 1)
  /\ [][DocumentStored =>
          \E i \in 1..Len(course_pages') : course_pages'[i].title = files[fileIdx + 1]]_vars

\* the scan found the numbered document before the unprefixed one; the loop
\* has stored the unprefixed one first and is at the numbered one
C26_Witness ==
  /\ scanned = <<NameTool, NamePlain>>
  /\ files = <<NamePlain, NameTool>>
  /\ fileIdx = 1 /\ success = 1 /\ syncPc = "syncFile"
  /\ course_pages[1].title = NamePlain /\ course_pages[1].updated_at = runs

\* C27: when the rewriter has returned, two references written with the same
\* text in the input are written with the same text in the output.
C27_SameSnippetSameResult ==
  Rewritten =>
    \A k, l \in 1..Len(References(Input)) :
      LET a == References(Input)[k]
          b == References(Input)[l]
      IN SubSeq(Input, a.first, a.target) = SubSeq(Input, b.first, b.target) =>
           SubSeq(processedContent, a.first, a.target)
             = SubSeq(processedContent, b.first, b.target)


(***************************************************************************)
(* Properties of the App: termination.                                     *)
(***************************************************************************)
\* the screen reached from s after at most n redirects under the held flags
RECURSIVE Follow(_, _)
Follow(s, n) ==
  LET d == RouteElement(isAuthenticated, isActive, isAdmin, s)
  IN IF d.kind = "Render" \/ n = 0 THEN s ELSE Follow(d.screen, n - 1)

\* C29: under the held session and flags, from every requested screen the
\* redirects of the guard reach, after at most two of them, a screen that the
\* guard renders.
C29_RedirectsEnd ==
  \A s \in Screens :
    RouteElement(isAuthenticated, isActive, isAdmin, Follow(s, 2)).kind = "Render"

\* /admin is requested by a signed-in user who is neither active nor admin:
\* the guard redirects to /courses, and from there to /pending
C29_Witness ==
  /\ View = "Routes" /\ path = "Admin"
  /\ isAuthenticated /\ profile # None /\ ~isActive /\ ~isAdmin
  /\ RouteDecision = RedirectTo("CourseList")
  /\ Follow(path, 1) = "CourseList" /\ Follow(path, 2) = "Pending"


\* C30: the loading flag becomes false and stays false, and whenever a
\* fetchProfile call is in flight, a state follows in which none is and the
\* loading flag is false.
C30_LoadingEnds ==
  /\ <>[](~loading)
  /\ (fetches # {}) ~> (fetches = {} /\ ~loading)

\* the lazy creation has failed at the insert: the resolution is over, the
\* error is set and the loading flag is false
C30_Witness ==
  /\ ~loading /\ fetches = {} /\ getSessionPc = "done"
  /\ session = "u1" /\ resolved["u1"] = "failed" /\ error = "create"
  /\ profile = None /\ RowsOf(profiles, "u1") = {}


(***************************************************************************)
(* Properties of the account import.                                       *)
(***************************************************************************)
\* the fields of a line: what whitespace and commas separate
FieldsOf(line) == SplitFields(Trim(line))

\* a line that is blank, a comment, or fails validation
Rejected(line) ==
  \/ \A i \in 1..Len(line) : IsSpace(line[i])
  \/ Trim(line)[1] = "#"
  \/ Len(FieldsOf(line)) < 2
  \/ ~MatchesWord(FieldsOf(line)[1])
  \/ Len(FieldsOf(line)[2]) < 6

\* the lines of the account file that are not rejected, in the file's order
Remaining ==
  LET Keep(line) == ~Rejected(line)
  IN SelectSeq(accountFile, Keep)

ExampleFiles == {<<LineValid, LineShortSecret>>, <<LineShortSecret, LineValid>>}

\* C22: the accounts submitted for creation are those of the lines that are
\* not rejected, in order, so a rejected line is never submitted; the three
\* counters together never exceed the number of those lines and equal it when
\* the import is done; for the file of one valid line and one line with a
\* 4-character secret nothing is counted as existing and one account is
\* counted, as created exactly when the provider registered it.
C22_OnlyValidLinesCounted ==
  /\ Len(createCalls) <= Len(Remaining)
  /\ \A i \in 1..Len(createCalls) :
       /\ createCalls[i].username = StringToLowerCase(FieldsOf(Remaining[i])[1])
       /\ createCalls[i].password = FieldsOf(Remaining[i])[2]
  /\ created + skipped + importFailed <= Len(Remaining)
  /\ importPc = "done" => created + skipped + importFailed = Len(Remaining)
  /\ importPc = "empty" => Len(Remaining) = 0
  /\ (importPc = "done" /\ accountFile \in ExampleFiles) =>
       /\ skipped = 0
       /\ created + importFailed = 1
       /\ created = 1 <=> Registered(authUsers, usernameToEmailImport(<<"a", "b", "1">>))

\* the import of the example file is done and its valid line was created
C22_Witness ==
  /\ importPc = "done"
  /\ accountFile = <<LineValid, LineShortSecret>>
  /\ created = 1 /\ skipped = 0 /\ importFailed = 0
  /\ Len(createCalls) = 1


(***************************************************************************)
(* Properties of the Signup page.                                          *)
(***************************************************************************)
\* the typed input passes every local check
LocalChecksPass ==
  /\ Len(username) >= 3
  /\ \A i \in 1..Len(username) : username[i] \in WordChars
  /\ Len(password) >= 6
  /\ password = confirmPassword

\* C28: a submission makes a signUp call exactly when the input passes every
\* local check, and otherwise shows an error, makes no call, does not navigate
\* and leaves the submitting flag false; the page navigates only to Pending
\* and only on a signUp that registered the user without error; whenever no
\* submission is in progress the submitting flag is false.
C28_SignupGuarded ==
  /\ [][HandleSignup =>
          IF LocalChecksPass
            THEN /\ Len(signUpCalls') = Len(signUpCalls) + 1
                 /\ signupPath' = signupPath
            ELSE /\ signupError' # ""
                 /\ signUpCalls' = signUpCalls
                 /\ signupPath' = signupPath
                 /\ ~signupLoading' /\ signupPc' = "idle"]_vars
  /\ [][signUpCalls' # signUpCalls => HandleSignup /\ LocalChecksPass]_vars
  /\ [][signupPath' # signupPath =>
          /\ signupPath' = "Pending"
          /\ SignUpReturn("ok")
          /\ authUsers' # authUsers
          /\ signupError' = ""]_vars
  /\ [](signupPc = "idle" => ~signupLoading)

\* a signup went through: one call, the page is at Pending
C28_Witness ==
  /\ signupPath = "Pending" /\ signupPc = "idle" /\ ~signupLoading
  /\ Len(signUpCalls) = 1 /\ signupError = ""
  /\ username = <<"A", "_", "a">>


(***************************************************************************)
(* Properties of the contact address.                                      *)
(***************************************************************************)
\* C24: for every username the Signup page accepted and every username the
\* import accepted, stripping the suffix from the address that was submitted
\* gives back the username.
C24_AddressReversible ==
  /\ \A i \in 1..Len(signUpCalls) : emailToUsername(signUpCalls[i].email) = signUpCalls[i].typed
  /\ \A i \in 1..Len(createCalls) :
       emailToUsername(createCalls[i].email) = createCalls[i].username


(***************************************************************************)
(* Properties of the profiles table under the Admin page.                  *)
(***************************************************************************)
\* the rows of the table that the step changes
ChangedRows == {i \in 1..Len(profiles) : i > Len(profiles') \/ profiles'[i] # profiles[i]}

\* the step is the store applying the update of a toggle
ToggleApplied == \E t \in toggles : ToggleUpdate(t, TRUE)

\* the step is the insert of the lazy creation
LazyCreation == \E r \in fetches : ServerInsert(r, "none")

\* the step is a registration, on which the trigger inserts the profile
Registration == CreateUser("ok") \/ SignUpReturn("ok")

\* the step belongs to the resolution of a profile that exists
ResolutionOfExisting ==
  \E r \in fetches :
    /\ RowsOf(profiles, r.user) # {}
    /\ \/ \E fail \in Failures : ServerSelect(r, fail) \/ ServerInsert(r, fail)
       \/ HandleSelect(r)
       \/ HandleInsert(r)

\* the step changes the one flag of the one profile, and nothing else
OnlyFlagChanged(id, flag) ==
  /\ Len(profiles') = Len(profiles)
  /\ Cardinality(ChangedRows) = 1
  /\ \A i \in ChangedRows :
       /\ profiles[i].id = id
       /\ profiles'[i] = [profiles[i] EXCEPT ![flag] = ~profiles[i][flag]]

\* C23, as stated: the table changes only through a toggle or the lazy
\* creation; a toggle the store applies changes exactly one flag of one
\* profile, the flag and the profile of the toggle; resolution of an existing
\* profile changes nothing in the table.
C23_OnlyToggleOrLazyCreation ==
  /\ [][profiles' # profiles => ToggleApplied \/ LazyCreation]_vars
  /\ [][\A t \in toggles : ToggleUpdate(t, TRUE) => OnlyFlagChanged(t.userId, t.flag)]_vars
  /\ [][ResolutionOfExisting => profiles' = profiles]_vars

\* C23, amended: a row that exists changes only through a toggle or through
\* the import script activating the user it has just created, and no row is
\* removed; rows are added only by the lazy creation or by the trigger on a
\* registration, one at a time and with both flags false; a toggle changes
\* no row but that of its user and in it no field but its flag, which it sets
\* to the negation of the status the page displayed; the import's activation
\* changes nothing but is_active of the new user; resolution of an existing
\* profile changes nothing in the table.
C23_FlagsFrame ==
  /\ [][ChangedRows # {} => ToggleApplied \/ ActivateUser(TRUE)]_vars
  /\ [][Len(profiles') # Len(profiles) =>
          /\ LazyCreation \/ Registration
          /\ profiles' = Append(profiles, profiles'[Len(profiles')])
          /\ ~profiles'[Len(profiles')].is_active
          /\ ~profiles'[Len(profiles')].is_admin]_vars
  /\ [][\A t \in toggles : ToggleUpdate(t, TRUE) =>
          /\ ChangedRows = {} \/ OnlyFlagChanged(t.userId, t.flag)
          /\ \A i \in RowsOf(profiles', t.userId) : profiles'[i][t.flag] = ~t.currentStatus]_vars
  /\ [][ActivateUser(TRUE) => ChangedRows = {} \/ OnlyFlagChanged(newUser, "is_active")]_vars
  /\ [][ResolutionOfExisting => profiles' = profiles]_vars

\* the store has applied a toggle of is_admin and holds the new status, next
\* to a profile the import has created and activated
C23_Witness ==
  /\ \E t \in toggles :
       /\ t.pc = "ok" /\ t.flag = "is_admin"
       /\ \E i \in RowsOf(profiles, t.userId) : profiles[i].is_admin = ~t.currentStatus
  /\ importPc = "done" /\ created = 1
  /\ \E i \in RowsOf(profiles, "n1") : profiles[i].is_active
  /\ Len(profiles) >= 2


(***************************************************************************)
(* Properties of the App: the held profile and the error state.            *)
(***************************************************************************)
\* C31: whenever no session is held, the held profile is null.
C31_NoSessionNoProfile == session = NoSession => profile = None


\* a fetchProfile call for the held session ends in this step, with a profile
SucceedsNow ==
  \E r \in fetches :
    /\ r.user = session /\ r.outcome = "row"
    /\ HandleSelect(r) \/ HandleInsert(r)

\* C32: the error screen is shown only when the latest completed resolution
\* for the held session failed, and when a resolution for the held session
\* ends with a profile, found or lazily created, the error is clear and the
\* routes are evaluated.
C32_ErrorOnlyAfterFailure ==
  /\ [](View = "Error" => resolved[session] = "failed")
  /\ [][SucceedsNow => error' = "" /\ View' = "Routes"]_vars


(***************************************************************************)
(* Properties of the list pages.                                           *)
(***************************************************************************)
\* C33: when a fetch of the user list or of the course list succeeds, also as
\* a retry after failed attempts, the page holds the fetched rows and shows
\* them, not the error message.
C33_RetryShowsList ==
  /\ [][FetchUsers(TRUE) => adminUsers' = Reverse(profiles) /\ AdminView' = "List"]_vars
  /\ [][FetchCourses(TRUE) =>
          /\ Len(courses') = Len(course_pages)
          /\ CourseView' \in {"List", "Empty"}]_vars


\* the flags the Admin page shows are those of the profiles table
ShownEqualsStore ==
  \A i \in 1..Len(adminUsers) :
    \E j \in RowsOf(profiles, adminUsers[i].id) :
      /\ profiles[j].is_active = adminUsers[i].is_active
      /\ profiles[j].is_admin = adminUsers[i].is_admin

\* C34: whenever no toggle of the Admin page is in flight, the flags the page
\* shows are those of the profiles table for every user, and the return of a
\* toggle whose update failed leaves the shown list unchanged.
C34_ShownFlagsAreStored ==
  /\ [](toggles = {} => ShownEqualsStore)
  /\ [][\A t \in toggles : (t.pc = "error" /\ ToggleReturn(t)) => adminUsers' = adminUsers]_vars


(***************************************************************************)
(* Properties of the sync run: rows, cache and repetition.                 *)
(***************************************************************************)
\* the run is over and every candidate was counted as succeeded
AllSucceeded == syncPc = "done" /\ failed = 0 /\ success = Len(files)

\* C35: when a run over candidates of different names in which every document
\* succeeded is over, each of its candidates has its row in the table and the
\* run has written as many rows as it had candidates: no candidate's row was
\* taken by another candidate of the run.
C35_OneRowPerCandidate ==
  (AllSucceeded /\ \A i, k \in 1..Len(files) : i # k => files[i] # files[k]) =>
    /\ \A i \in 1..Len(files) : \E j \in 1..Len(course_pages) : course_pages[j].title = files[i]
    /\ Cardinality({j \in 1..Len(course_pages) : course_pages[j].updated_at = runs}) = Len(files)


\* the storagePaths written successfully in this run
WrittenPaths == {q \in AssetPaths : uploads[q].stored > 0}

\* C36: the asset cache holds exactly the storagePaths whose write succeeded
\* in this run, each with the public URL of the path, so no missing asset and
\* no path whose writes all failed is cached; within a run no entry is removed
\* or changed; the number of uploaded assets of the tally, the size of the
\* cache when the run is done, is the number of those paths.
C36_CacheIsWrittenPaths ==
  /\ [](DOMAIN uploadedAssets = WrittenPaths)
  /\ [](\A q \in DOMAIN uploadedAssets : uploadedAssets[q] = PublicUrl(q) /\ q \in LocalAssets)
  /\ [][runs' = runs =>
          \A q \in DOMAIN uploadedAssets :
            q \in DOMAIN uploadedAssets' /\ uploadedAssets'[q] = uploadedAssets[q]]_vars
  /\ [](syncPc = "done" => Cardinality(DOMAIN uploadedAssets) = Cardinality(WrittenPaths))

\* a run is done in which a write of image/a.png failed and a later one
\* succeeded: the path is cached
C36_Witness ==
  /\ syncPc = "done"
  /\ "image/a.png" \in DOMAIN uploadedAssets
  /\ uploads["image/a.png"].attempts = 2 /\ uploads["image/a.png"].stored = 1

\* the rows of the table without updated_at
RowSet(rows) ==
  {[slug |-> rows[i].slug, title |-> rows[i].title, sort_order |-> rows[i].sort_order,
    md_content |-> rows[i].md_content] : i \in 1..Len(rows)}

\* the results of the writes to the bucket in a run, in order
UploadOutcomes(tr) == SelectSeq(tr, LAMBDA a : a \in {"uploaded", "upload failed"})

\* C37: when a run that found the same files as the run before it, and whose
\* uploads had the same outcomes, is over, the table holds the same rows as
\* after the run before, updated_at apart.
C37_SecondRunSameRows ==
  (/\ runs >= 2 /\ syncPc = "done"
   /\ scanned = before.scanned
   /\ UploadOutcomes(trace) = UploadOutcomes(before.trace)) =>
    RowSet(course_pages) = RowSet(before.pages)

\* C37, amended: when a run that found the same files as the run before it
\* and got the same answers (the key, the bucket check, every read, every
\* upload and every upsert) is over, the table holds the same rows as after
\* the run before, updated_at apart.
C37_SameAnswersSameRows ==
  (/\ runs >= 2 /\ syncPc \in {"done", "exit1"}
   /\ scanned = before.scanned
   /\ trace = before.trace) =>
    RowSet(course_pages) = RowSet(before.pages)

\* a second run is done that repeated the first, with an upload that failed
\* and one that succeeded, and has written the rows again
C37_Witness ==
  /\ runs = 2 /\ syncPc = "done"
  /\ scanned = before.scanned /\ trace = before.trace
  /\ \E i \in 1..Len(trace) : trace[i] = "upload failed"
  /\ \E i \in 1..Len(trace) : trace[i] = "uploaded"
  /\ course_pages # <<>>
  /\ \A i \in 1..Len(course_pages) : course_pages[i].updated_at = 2

====
